---- MODULE Spec2Model ----
(***************************************************************************)
(* Verification model of rest-hapi's document-scope authorization policy   *)
(* (src/policies/enforce-document-scope.js) and of the CRUD and            *)
(* association operations of its handler helper (src/unnamed/part_000).    *)
(*                                                                         *)
(* JavaScript values are modelled by what the interpreter does with them:  *)
(* a scope token is the sequence of its characters, an accumulator of      *)
(* Array.prototype.reduce is a tagged value that can be an array, a        *)
(* number, a boolean or undefined, and a TypeError raised by a property    *)
(* access on undefined is an outcome of its own.                           *)
(***************************************************************************)
EXTENDS Integers, Sequences, FiniteSets, TLC

\* ------------------------------------------------------------------------
\* Bounds
\* ------------------------------------------------------------------------
MaxScopeLen == 2

MaxVerifyDocs == 2

MaxDocs == 3

MaxOwners == 1

MaxChildren == 2

MaxCalls == 2

\* the longest payload of addMany
MaxMany == 2

\* the number of repository calls that may fail in one run
MaxFailures == 1

\* the documents of the CRUD collection
MaxCrudDocs == 2

\* the CRUD calls of one run
MaxOps == 1

\* the association descriptors of the child model
MaxDescriptors == 2

\* the addOne requests that run at the same time
MaxRequests == 2

VARIABLES
    cmpUser,                  \* compareScopes: the caller's scope set
    cmpDoc,                   \* compareScopes: the document scope list
    cmpResult,                \* compareScopes: "none" before the call, then its outcome
    vDocs,                    \* verifyScope: the documents
    vAction,                  \* verifyScope: the action
    vUser,                    \* verifyScope: the caller's scope set
    vResult,                  \* verifyScope: its outcome
    enableDocumentScopeFail,  \* config.enableDocumentScopeFail
    store,                    \* the model's collection: the scope policy of each document
    stage,                    \* the request's position: idle, pre, handler, post, done
    request,                  \* the request as received: method, params, payload, credentials
    payload,                  \* request.payload, which the pre-check may replace
    preOutcome,               \* what the pre-check passed to next
    response,                 \* request.response.source: the documents the handler returned
    postOutcome,              \* what the post-check passed to next, or the exception it threw
    repoCalls,                \* the repository calls made for the request, in order
    scopeRead,                \* the action and ids the pre-check passed to verifyScopeById
    assocType,                \* ownerModel.routeOptions.associations[associationName].type
    reciprocal,               \* childModel.routeOptions.associations holds the association back
    owners,                   \* persisted owners: ownerObject[associationName] of each
    children,                 \* persisted children: the reciprocal array and the foreign key
    nextId,                   \* the next _id given to a linking entry that is pushed
    call,                     \* the association call in progress and its loaded documents
    pending,                  \* the saves issued and not yet completed
    settled,                  \* the saves that completed or failed, by call
    detached,                 \* _removeAssociation runs that no caller waits for
    log,                      \* what each finished call reported to its caller
    config,                   \* config.enableSoftDelete, enableCreatedAt, enableUpdatedAt
    routeOptions,             \* model.routeOptions: the hooks the collection defines
    collection,               \* the documents of the model's collection, by _id
    history,                  \* what each CRUD call did and reported, in order
    childAssociations,        \* childModel.routeOptions.associations, in key order
    childObject,              \* the child document: the value of each association field
    resolution,               \* the reciprocal name _setAssociation and _removeAssociation resolved
    ownerDocument,            \* concurrent addOne: the persisted owner's association array
    childDocuments,           \* concurrent addOne: the persisted children's reciprocal arrays
    requests                  \* concurrent addOne: each request's position and loaded documents

cmpVars == <<cmpUser, cmpDoc, cmpResult>>

verVars == <<vDocs, vAction, vUser, vResult>>

gateVars ==
    <<store, stage, request, payload, preOutcome, response, postOutcome, repoCalls, scopeRead>>

assocVars == <<assocType, reciprocal, owners, children, nextId, call, pending, settled, detached, log>>

crudVars == <<config, routeOptions, collection, history>>

resolveVars == <<childAssociations, childObject, resolution>>

raceVars == <<ownerDocument, childDocuments, requests>>

vars == <<cmpVars, verVars, enableDocumentScopeFail, gateVars, assocVars, crudVars, resolveVars,
          raceVars>>

\* ------------------------------------------------------------------------
\* Scope tokens
\* ------------------------------------------------------------------------
Names == {"a", "b"}

PlainTokens == {<<n>> : n \in Names}

ForbiddenTokens == {<<"!", n>> : n \in Names}

RequiredTokens == {<<"+", n>> : n \in Names}

DocTokens == PlainTokens \cup ForbiddenTokens \cup RequiredTokens

\* a caller may hold any string as a scope, also one that starts with '!'
UserTokens == PlainTokens \cup {<<"!", "a">>}

\* the value `undefined` when it occurs as an element of a scope list
UNDEF == <<"undefined">>

\* a scope field that the document's scope object does not carry
ABSENT == << <<"absent">> >>

SeqsUpTo(S, n) == UNION {[1..k -> S] : k \in 0..n}

ScopeLists == SeqsUpTo(DocTokens, MaxScopeLen)

\* ------------------------------------------------------------------------
\* JavaScript values that the reduce accumulators of compareScopes take
\* ------------------------------------------------------------------------
JsArray(a) == [t |-> "array", a |-> a]

JsUndefined == [t |-> "undefined", a |-> <<>>]

JsNumber == [t |-> "number", a |-> <<>>]

JsTrue == [t |-> "true", a |-> <<>>]

JsFalse == [t |-> "false", a |-> <<>>]

JsTypeError == [t |-> "TypeError", a |-> <<>>]

\* !x of JavaScript: undefined and false are falsy
Falsy(v) == v.t \in {"undefined", "false"}

\* scopeValue[0]: undefined for the empty string
FirstChar(scopeValue) == IF Len(scopeValue) = 0 THEN "" ELSE scopeValue[1]

\* scopeValue.substr(1)
substr1(scopeValue) == IF Len(scopeValue) = 0 THEN scopeValue ELSE Tail(scopeValue)

\* ------------------------------------------------------------------------
\* internals.compareScopes
\* ------------------------------------------------------------------------

\* callback of documentScope.reduce(..., []) that collects the forbidden
\* tokens: it pushes onto the accumulator and returns nothing
forbiddenCollect(scope, scopeValue) ==
    IF scope.t = "TypeError" THEN scope
    ELSE IF scopeValue = UNDEF THEN JsTypeError
    ELSE IF FirstChar(scopeValue) = "!"
         THEN IF scope.t = "array" THEN JsUndefined ELSE JsTypeError
         ELSE JsUndefined

RECURSIVE reduceForbiddenCollect(_, _)
reduceForbiddenCollect(documentScope, scope) ==
    IF documentScope = <<>> THEN scope
    ELSE reduceForbiddenCollect(Tail(documentScope),
                                forbiddenCollect(scope, Head(documentScope)))

\* callback of fobiddenScope.reduce(..., true)
forbiddenSatisfied(userScope, satisfied, scopeValue) ==
    IF scopeValue \in userScope THEN JsFalse ELSE JsUndefined

RECURSIVE reduceForbiddenSatisfied(_, _, _)
reduceForbiddenSatisfied(userScope, list, satisfied) ==
    IF list = <<>> THEN satisfied
    ELSE reduceForbiddenSatisfied(userScope, Tail(list),
                                  forbiddenSatisfied(userScope, satisfied, Head(list)))

\* callback of documentScope.reduce(..., []) that collects the required
\* tokens: it returns the result of push (the new length) on a match
requiredCollect(scope, scopeValue) ==
    IF scope.t = "TypeError" THEN scope
    ELSE IF scopeValue = UNDEF THEN JsTypeError
    ELSE IF FirstChar(scopeValue) = "+"
         THEN IF scope.t = "array" THEN JsNumber ELSE JsTypeError
         ELSE JsUndefined

RECURSIVE reduceRequiredCollect(_, _)
reduceRequiredCollect(documentScope, scope) ==
    IF documentScope = <<>> THEN scope
    ELSE reduceRequiredCollect(Tail(documentScope),
                               requiredCollect(scope, Head(documentScope)))

\* callback of requiredScope.reduce(..., true)
requiredSatisfied(userScope, satisfied, scopeValue) ==
    IF scopeValue \notin userScope THEN JsFalse ELSE JsUndefined

RECURSIVE reduceRequiredSatisfied(_, _, _)
reduceRequiredSatisfied(userScope, list, satisfied) ==
    IF list = <<>> THEN satisfied
    ELSE reduceRequiredSatisfied(userScope, Tail(list),
                                 requiredSatisfied(userScope, satisfied, Head(list)))

\* documentScope.filter(...) of the general tokens
RECURSIVE generalFilter(_)
generalFilter(documentScope) ==
    IF documentScope = <<>> THEN JsArray(<<>>)
    ELSE LET rest == generalFilter(Tail(documentScope))
             scopeValue == Head(documentScope)
         IN  IF scopeValue = UNDEF \/ rest.t = "TypeError" THEN JsTypeError
             ELSE IF FirstChar(scopeValue) # "!" /\ FirstChar(scopeValue) # "+"
                  THEN JsArray(<<scopeValue>> \o rest.a)
                  ELSE rest

\* callback of generalScope.reduce(..., false)
generalSatisfied(userScope, satisfied, scopeValue) ==
    IF scopeValue \in userScope THEN JsTrue ELSE JsUndefined

RECURSIVE reduceGeneralSatisfied(_, _, _)
reduceGeneralSatisfied(userScope, list, satisfied) ==
    IF list = <<>> THEN satisfied
    ELSE reduceGeneralSatisfied(userScope, Tail(list),
                                generalSatisfied(userScope, satisfied, Head(list)))

\* the three checks in the order of the code; the result is "true", "false"
\* or "TypeError" (the exception the call ends with)
compareScopes(userScope, documentScope) ==
    LET fobiddenScope == reduceForbiddenCollect(documentScope, JsArray(<<>>))
    IN
    IF fobiddenScope.t # "array" THEN "TypeError"
    ELSE IF Falsy(reduceForbiddenSatisfied(userScope, fobiddenScope.a, JsTrue)) THEN "false"
    ELSE
    LET requiredScope == reduceRequiredCollect(documentScope, JsArray(<<>>))
    IN
    IF requiredScope.t # "array" THEN "TypeError"
    ELSE IF Falsy(reduceRequiredSatisfied(userScope, requiredScope.a, JsTrue)) THEN "false"
    ELSE
    LET generalScope == generalFilter(documentScope)
    IN
    IF generalScope.t # "array" THEN "TypeError"
    ELSE IF Falsy(reduceGeneralSatisfied(userScope, generalScope.a, JsFalse)) THEN "false"
    ELSE "true"

\* ------------------------------------------------------------------------
\* internals.verifyScope
\* ------------------------------------------------------------------------
Actions == {"read", "update", "delete", "associate"}

\* document.scope is undefined
NoPolicy ==
    [has |-> FALSE, scope |-> ABSENT, readScope |-> ABSENT, updateScope |-> ABSENT,
     deleteScope |-> ABSENT, associateScope |-> ABSENT]

Policy(g, r, u, d, s) ==
    [has |-> TRUE, scope |-> g, readScope |-> r, updateScope |-> u,
     deleteScope |-> d, associateScope |-> s]

\* document.scope && !_.isEmpty(document.scope)
hasPolicy(policy) ==
    /\ policy.has
    /\ \/ policy.scope # ABSENT
       \/ policy.readScope # ABSENT
       \/ policy.updateScope # ABSENT
       \/ policy.deleteScope # ABSENT
       \/ policy.associateScope # ABSENT

\* the switch on the action; "Invalid method type." is thrown for any other
actionScopeOf(policy, action) ==
    CASE action = "read" -> policy.readScope
      [] action = "update" -> policy.updateScope
      [] action = "delete" -> policy.deleteScope
      [] action = "associate" -> policy.associateScope

\* documentScope && documentScope[0]: the first element exists and is truthy
firstTruthy(documentScope) ==
    /\ Len(documentScope) > 0
    /\ documentScope[1] # <<>>
    /\ documentScope[1] # UNDEF

\* the list handed to compareScopes: Array.prototype.concat appends a value
\* that is not an array as one element, undefined included
EffectiveScope(policy, action) ==
    LET documentScope == IF policy.scope = ABSENT THEN <<>> ELSE policy.scope
        actionScope == actionScopeOf(policy, action)
    IN  IF firstTruthy(documentScope)
        THEN documentScope \o (IF actionScope = ABSENT THEN <<UNDEF>> ELSE actionScope)
        ELSE IF actionScope # ABSENT THEN actionScope
        ELSE documentScope

\* the callback without the test of line 186 for an empty effective list
verifyDocumentNoEmptyTest(document, action, userScope, scopeFail) ==
    IF ~hasPolicy(document.scope) THEN "authorized"
    ELSE IF action \notin Actions THEN "Invalid method type."
    ELSE LET authorizedForDocument ==
                 compareScopes(userScope, EffectiveScope(document.scope, action))
         IN  CASE authorizedForDocument = "true" -> "authorized"
               [] authorizedForDocument = "TypeError" -> "TypeError"
               [] authorizedForDocument = "false" ->
                      IF scopeFail THEN "throwFalse" ELSE "unauthorized"

\* the filter callback for one document: "authorized" (filtered out),
\* "unauthorized" (kept), "throwFalse" (strict mode), or the exception
verifyDocument(document, action, userScope, scopeFail) ==
    IF ~hasPolicy(document.scope) THEN "authorized"
    ELSE IF action \notin Actions THEN "Invalid method type."
    ELSE IF Len(EffectiveScope(document.scope, action)) = 0 THEN "authorized"
    ELSE LET authorizedForDocument ==
                 compareScopes(userScope, EffectiveScope(document.scope, action))
         IN  CASE authorizedForDocument = "true" -> "authorized"
               [] authorizedForDocument = "TypeError" -> "TypeError"
               [] authorizedForDocument = "false" ->
                      IF scopeFail THEN "throwFalse" ELSE "unauthorized"

\* whether the callback reaches the call of compareScopes for the document
reachesCompare(document, action) ==
    /\ hasPolicy(document.scope)
    /\ action \in Actions
    /\ Len(EffectiveScope(document.scope, action)) > 0

VerifyStart == [kind |-> "ok", authorized |-> TRUE, unauthorizedDocs |-> <<>>,
                compared |-> <<>>]

\* documents.filter(...) with the try/catch around it; `compared` lists the
\* arguments of the calls of compareScopes, in order
RECURSIVE verifyFilter(_, _, _, _, _)
verifyFilter(documents, action, userScope, scopeFail, acc) ==
    IF documents = <<>> THEN acc
    ELSE
    LET document == Head(documents)
        verdict == verifyDocument(document, action, userScope, scopeFail)
        seen == IF reachesCompare(document, action)
                THEN Append(acc.compared,
                            [id |-> document.id,
                             documentScope |-> EffectiveScope(document.scope, action)])
                ELSE acc.compared
    IN  CASE verdict = "authorized" ->
                 verifyFilter(Tail(documents), action, userScope, scopeFail,
                              [acc EXCEPT !.compared = seen])
          [] verdict = "unauthorized" ->
                 verifyFilter(Tail(documents), action, userScope, scopeFail,
                              [acc EXCEPT !.authorized = FALSE,
                                          !.unauthorizedDocs = Append(@, document),
                                          !.compared = seen])
          [] verdict = "throwFalse" ->
                 [kind |-> "ok", authorized |-> FALSE, unauthorizedDocs |-> <<>>,
                  compared |-> seen]
          [] OTHER ->
                 [kind |-> verdict, authorized |-> acc.authorized,
                  unauthorizedDocs |-> <<>>, compared |-> seen]

verifyScope(documents, action, userScope, scopeFail) ==
    verifyFilter(documents, action, userScope, scopeFail, VerifyStart)

\* ------------------------------------------------------------------------
\* Inputs of the scope functions
\* ------------------------------------------------------------------------
GlobalVals == {ABSENT, <<>>, << <<"a">> >>}

\* the four action scopes of a policy: all absent, all empty, all different,
\* and deleteScope alone
ActionShapes ==
    { [r |-> ABSENT, u |-> ABSENT, d |-> ABSENT, s |-> ABSENT],
      [r |-> <<>>, u |-> <<>>, d |-> <<>>, s |-> <<>>],
      [r |-> << <<"b">> >>, u |-> << <<"!", "a">> >>, d |-> << <<"+", "b">> >>,
       s |-> << <<"b">>, <<"!", "a">> >>],
      [r |-> ABSENT, u |-> ABSENT, d |-> << <<"b">> >>, s |-> ABSENT] }

PolicyDomain ==
    {NoPolicy} \cup {Policy(g, sh.r, sh.u, sh.d, sh.s) : g \in GlobalVals, sh \in ActionShapes}

DocLists(n) ==
    UNION { {[i \in 1..k |-> [id |-> i, scope |-> f[i]]] : f \in [1..k -> PolicyDomain]}
            : k \in 1..n }

NoResult == [kind |-> "none", authorized |-> TRUE, unauthorizedDocs |-> <<>>,
             compared |-> <<>>]

CmpIdle == cmpUser = {} /\ cmpDoc = <<>> /\ cmpResult = "none"

VerIdle == vDocs = <<>> /\ vAction = "read" /\ vUser = {} /\ vResult = NoResult

\* request.payload that is not an array (undefined, or the object of an update)
NoPayload == <<0>>

NoRequest == [method |-> "none", id |-> 0, ownerId |-> 0, payload |-> NoPayload, user |-> {}]

\* the pre-check has not called verifyScopeById
NoScopeRead == [action |-> "", ids |-> {}]

GateIdle ==
    /\ store = <<>>
    /\ stage = "idle"
    /\ request = NoRequest
    /\ payload = NoPayload
    /\ preOutcome = "none"
    /\ response = <<>>
    /\ postOutcome = "none"
    /\ repoCalls = <<>>
    /\ scopeRead = NoScopeRead

NoCall == [op |-> "none", owner |-> 0, child |-> 0, extra |-> "none", plain |-> FALSE,
           list |-> <<>>, rest |-> <<>>, n |-> 0, k |-> 0, pc |-> "idle",
           ownerObject |-> <<>>, ownerEntry |-> 0, childEntry |-> 0,
           clean |-> TRUE, before |-> [owners |-> <<>>, children |-> <<>>],
           where |-> 0, error |-> "none"]

\* a document of the CRUD collection; 0 stands for a timestamp field that is
\* not set, present = FALSE for an _id that matches no document
NoDocument == [present |-> FALSE, value |-> "none", createdAt |-> 0, updatedAt |-> 0,
               isDeleted |-> FALSE, deletedAt |-> 0]

CrudIdle ==
    /\ config = [enableSoftDelete |-> FALSE, enableCreatedAt |-> FALSE,
                 enableUpdatedAt |-> FALSE]
    /\ routeOptions = [pre |-> FALSE, post |-> FALSE]
    /\ collection = <<>>
    /\ history = <<>>

AssocIdle ==
    /\ assocType = "MANY_MANY"
    /\ reciprocal = TRUE
    /\ owners = <<>>
    /\ children = <<>>
    /\ nextId = 1
    /\ call = NoCall
    /\ pending = {}
    /\ settled = {}
    /\ detached = {}
    /\ log = <<>>

\* no reciprocal name has been resolved
NoResolution == [add |-> "none", remove |-> "none"]

ResolveIdle == childAssociations = <<>> /\ childObject = <<>> /\ resolution = NoResolution

RaceIdle == ownerDocument = <<>> /\ childDocuments = <<>> /\ requests = <<>>

\* ------------------------------------------------------------------------
\* SpecCompare: compareScopes applied to every input within the bounds
\* ------------------------------------------------------------------------
InitCompare ==
    /\ ResolveIdle
    /\ RaceIdle
    /\ cmpUser \in SUBSET UserTokens
    /\ cmpDoc \in ScopeLists
    /\ cmpResult = "none"
    /\ VerIdle
    /\ GateIdle
    /\ AssocIdle
    /\ CrudIdle
    /\ enableDocumentScopeFail = FALSE

Compare ==
    /\ cmpResult = "none"
    /\ cmpResult' = compareScopes(cmpUser, cmpDoc)
    /\ UNCHANGED <<resolveVars, raceVars, crudVars, cmpUser, cmpDoc, verVars, enableDocumentScopeFail, gateVars, assocVars>>

NextCompare == Compare

SpecCompare == InitCompare /\ [][NextCompare]_vars

\* ------------------------------------------------------------------------
\* SpecVerify: verifyScope applied to every input within the bounds
\* ------------------------------------------------------------------------
InitVerify ==
    /\ ResolveIdle
    /\ RaceIdle
    /\ CmpIdle
    /\ vDocs \in DocLists(MaxVerifyDocs)
    /\ vAction \in Actions \cup {"patch"}
    /\ vUser \in SUBSET PlainTokens
    /\ vResult = NoResult
    /\ GateIdle
    /\ AssocIdle
    /\ CrudIdle
    /\ enableDocumentScopeFail \in BOOLEAN

Verify ==
    /\ vResult = NoResult
    /\ vResult' = verifyScope(vDocs, vAction, vUser, enableDocumentScopeFail)
    /\ UNCHANGED <<resolveVars, raceVars, crudVars, cmpVars, vDocs, vAction, vUser, enableDocumentScopeFail, gateVars, assocVars>>

NextVerify == Verify

SpecVerify == InitVerify /\ [][NextVerify]_vars

\* ------------------------------------------------------------------------
\* SpecGate: one request through the pre-check, the handler and the post-check
\* ------------------------------------------------------------------------
Ids == 1..MaxDocs

GatePolicies ==
    { NoPolicy,
      Policy(<<>>, <<>>, <<>>, <<>>, <<>>),
      Policy(ABSENT, << <<"b">> >>, << <<"!", "a">> >>, << <<"+", "b">> >>,
             << <<"b">>, <<"!", "a">> >>),
      Policy(<< <<"a">> >>, <<>>, <<>>, <<>>, <<>>) }

\* the non-empty lists of distinct ids: the payload of a bulk delete
IdLists == {p \in SeqsUpTo(Ids, MaxDocs) :
                Len(p) > 0 /\ \A i, j \in DOMAIN p : i # j => p[i] # p[j]}

Requests ==
    {[method |-> "put", id |-> i, ownerId |-> 0, payload |-> NoPayload] : i \in Ids}
    \cup {[method |-> m, id |-> 0, ownerId |-> i, payload |-> NoPayload] :
              m \in {"get", "put", "delete"}, i \in Ids}
    \cup {[method |-> "delete", id |-> i, ownerId |-> 0, payload |-> NoPayload] : i \in Ids}
    \cup {[method |-> "delete", id |-> 0, ownerId |-> 0, payload |-> p] : p \in IdLists}
    \cup {[method |-> "get", id |-> i, ownerId |-> 0, payload |-> NoPayload] : i \in Ids}
    \cup {[method |-> "get", id |-> 0, ownerId |-> 0, payload |-> NoPayload],
          [method |-> "post", id |-> 0, ownerId |-> 0, payload |-> NoPayload]}

\* preAction with every request on an owner taken as an association change
preActionAssociates(req) ==
    IF req.id # 0 /\ req.method = "put" THEN "update"
    ELSE IF req.ownerId # 0 THEN "associate"
    ELSE IF req.method = "delete" THEN "delete"
    ELSE ""

\* the action the pre-check derives from the request; "" when it lets the
\* request through unchecked
preAction(req) ==
    IF req.id # 0 /\ req.method = "put" THEN "update"
    ELSE IF req.ownerId # 0 THEN (IF req.method = "get" THEN "read" ELSE "associate")
    ELSE IF req.method = "delete" THEN "delete"
    ELSE ""

\* the ids the pre-check verifies; the payload of a request without _id is
\* mapped to the _id of its items
preIds(req, body) ==
    IF req.id # 0 /\ req.method = "put" THEN {req.id}
    ELSE IF req.ownerId # 0 THEN {req.ownerId}
    ELSE IF req.id # 0 THEN {req.id}
    ELSE {body[i] : i \in DOMAIN body}

storedDocument(docs, i) == [id |-> i, scope |-> docs[i]]

\* model.find({_id: {$in: documentIds}}, 'scope'): the documents in the
\* collection's order
RECURSIVE findByIds(_, _, _)
findByIds(docs, ids, i) ==
    IF i > Len(docs) THEN <<>>
    ELSE (IF i \in ids THEN <<storedDocument(docs, i)>> ELSE <<>>) \o findByIds(docs, ids, i + 1)

\* what the filter of the payload leaves: the items whose _id is not among
\* the unauthorized ids
RECURSIVE filterPayload(_, _)
filterPayload(body, unauthorizedIds) ==
    IF body = <<>> THEN <<>>
    ELSE (IF Head(body) \in unauthorizedIds THEN <<>> ELSE <<Head(body)>>)
         \o filterPayload(Tail(body), unauthorizedIds)

docIds(documents) == {documents[i].id : i \in DOMAIN documents}

\* preDecision with a catch handler that lets the request through
preDecisionSwallows(result, action, body, scopeFail) ==
    IF result.kind # "ok" THEN "continue"
    ELSE IF result.authorized THEN "continue"
    ELSE IF action = "delete" /\ ~scopeFail
         THEN IF body = NoPayload THEN "badImplementation" ELSE "continue"
         ELSE "forbidden"

\* the then and catch handlers of the pre-check: the outcome passed to next
preDecision(result, action, body, scopeFail) ==
    IF result.kind # "ok" THEN "badImplementation"
    ELSE IF result.authorized THEN "continue"
    ELSE IF action = "delete" /\ ~scopeFail
         THEN IF body = NoPayload THEN "badImplementation" ELSE "continue"
         ELSE "forbidden"

InitGate ==
    /\ ResolveIdle
    /\ RaceIdle
    /\ CmpIdle
    /\ VerIdle
    /\ AssocIdle
    /\ CrudIdle
    /\ enableDocumentScopeFail \in BOOLEAN
    /\ store \in [Ids -> GatePolicies]
    /\ stage = "idle"
    /\ request = NoRequest
    /\ payload = NoPayload
    /\ preOutcome = "none"
    /\ response = <<>>
    /\ postOutcome = "none"
    /\ repoCalls = <<>>
    /\ scopeRead = NoScopeRead

Receive ==
    /\ stage = "idle"
    /\ \E req \in Requests, user \in SUBSET PlainTokens :
           /\ request' = [method |-> req.method, id |-> req.id, ownerId |-> req.ownerId,
                          payload |-> req.payload, user |-> user]
           /\ payload' = req.payload
    /\ stage' = "pre"
    /\ UNCHANGED <<resolveVars, raceVars, crudVars, cmpVars, verVars, assocVars, enableDocumentScopeFail, store, preOutcome,
                   response, postOutcome, repoCalls, scopeRead>>

\* enforceDocumentScopePreForModel with verifyScopeById
PreHook ==
    /\ stage = "pre"
    /\ LET action == preAction(request)
           result == verifyScope(findByIds(store, preIds(request, payload), 1), action,
                                 request.user, enableDocumentScopeFail)
           outcome == IF action = "" THEN "continue"
                      ELSE preDecision(result, action, payload, enableDocumentScopeFail)
       IN  /\ preOutcome' = outcome
           /\ repoCalls' = IF action = "" THEN repoCalls ELSE Append(repoCalls, "find scope")
           /\ scopeRead' = IF action = "" THEN scopeRead
                           ELSE [action |-> action, ids |-> preIds(request, payload)]
           /\ payload' = IF /\ action = "delete"
                            /\ result.kind = "ok"
                            /\ ~result.authorized
                            /\ ~enableDocumentScopeFail
                            /\ payload # NoPayload
                         THEN filterPayload(payload, docIds(result.unauthorizedDocs))
                         ELSE payload
           /\ stage' = IF outcome = "continue" THEN "handler" ELSE "done"
    /\ UNCHANGED <<resolveVars, raceVars, crudVars, cmpVars, verVars, assocVars, enableDocumentScopeFail, store, request, response,
                   postOutcome>>

\* what a read returns: the document of the id, or the documents of the
\* collection in its order
readResult(docs, req) ==
    IF req.id # 0 THEN <<storedDocument(docs, req.id)>>
    ELSE findByIds(docs, DOMAIN docs, 1)

\* the route handler: reached only when the pre-check let the request through
Handler ==
    /\ stage = "handler"
    /\ repoCalls' = Append(repoCalls, "handler " \o request.method)
    /\ response' = IF request.method = "get" THEN readResult(store, request) ELSE <<>>
    /\ stage' = "post"
    /\ UNCHANGED <<resolveVars, raceVars, crudVars, cmpVars, verVars, assocVars, enableDocumentScopeFail, store, request, payload,
                   preOutcome, postOutcome, scopeRead>>

ErrorPlaceholder == [error |-> "Insufficient document scope."]

\* the map over response.source.docs that replaces the unauthorized documents
RECURSIVE redact(_, _)
redact(documents, unauthorizedIds) ==
    IF documents = <<>> THEN <<>>
    ELSE <<IF Head(documents).id \in unauthorizedIds THEN ErrorPlaceholder
           ELSE Head(documents)>>
         \o redact(Tail(documents), unauthorizedIds)

\* the branches of the post-check after verifyScope returned; an exception
\* of verifyScope is not caught and leaves the hook
postDecision(result, req, scopeFail) ==
    IF result.kind # "ok" THEN result.kind
    ELSE IF result.authorized THEN "continue"
    ELSE IF req.id # 0 \/ scopeFail THEN "forbidden"
    ELSE "continue"

\* enforceDocumentScopePostForModel
PostHook ==
    /\ stage = "post"
    /\ LET result == verifyScope(response, "read", request.user, enableDocumentScopeFail)
           outcome == IF request.method = "get"
                      THEN postDecision(result, request, enableDocumentScopeFail)
                      ELSE "continue"
       IN  /\ postOutcome' = outcome
           /\ response' = IF /\ request.method = "get"
                             /\ result.kind = "ok"
                             /\ ~result.authorized
                             /\ request.id = 0
                             /\ ~enableDocumentScopeFail
                          THEN redact(response, docIds(result.unauthorizedDocs))
                          ELSE response
    /\ stage' = "done"
    /\ UNCHANGED <<resolveVars, raceVars, crudVars, cmpVars, verVars, assocVars, enableDocumentScopeFail, store, request, payload,
                   preOutcome, repoCalls, scopeRead>>

NextGate == Receive \/ PreHook \/ Handler \/ PostHook

SpecGate == InitGate /\ [][NextGate]_vars

\* ------------------------------------------------------------------------
\* SpecAssoc: the association calls of one caller, run one after another,
\* against the owner and child collections
\* ------------------------------------------------------------------------
OwnerIds == 1..MaxOwners

ChildIds == 1..MaxChildren

\* an id that matches no document
MissingId == 0

\* the extra fields of a linking entry; "none" when the payload carries none
Extras == {"none", "x", "y"}

\* the child ids of an addMany payload, in input order
ChildLists == SeqsUpTo(ChildIds \cup {MissingId}, MaxMany)

\* the two shapes of an addMany payload: an array of ids (plain), or an array
\* of objects that carry a childId and extra fields
PayloadForms ==
    {[plain |-> TRUE, extra |-> "none"]} \cup {[plain |-> FALSE, extra |-> x] : x \in Extras}

\* duplicate = array.filter(...)[0]; array.indexOf(duplicate): the position of
\* the first entry that references the document, 0 when there is none
RECURSIVE entryIndexFrom(_, _, _)
entryIndexFrom(links, ref, i) ==
    IF i > Len(links) THEN 0
    ELSE IF links[i].ref = ref THEN i
    ELSE entryIndexFrom(links, ref, i + 1)

entryIndex(links, ref) == entryIndexFrom(links, ref, 1)

\* setOwnerLink with unshift in place of push
setOwnerLinkInFront(links, childId, extra, extraFields, fresh) ==
    LET duplicateIndex == entryIndex(links, childId)
    IN  IF duplicateIndex = 0
        THEN <<[id |-> fresh, ref |-> childId, extra |-> extra]>> \o links
        ELSE IF extraFields
             THEN [links EXCEPT ![duplicateIndex] =
                      [id |-> links[duplicateIndex].id, ref |-> childId, extra |-> extra]]
             ELSE links

\* the owner's side of _setAssociation: push a new entry, or replace the
\* extra fields of the existing one and keep its _id
setOwnerLink(links, childId, extra, extraFields, fresh) ==
    LET duplicateIndex == entryIndex(links, childId)
    IN  IF duplicateIndex = 0
        THEN Append(links, [id |-> fresh, ref |-> childId, extra |-> extra])
        ELSE IF extraFields
             THEN [links EXCEPT ![duplicateIndex] =
                      [id |-> links[duplicateIndex].id, ref |-> childId, extra |-> extra]]
             ELSE links

\* the child's side of _setAssociation, on the reciprocal array
setChildLink(links, ownerId, extra, fresh) ==
    LET duplicateIndex == entryIndex(links, ownerId)
    IN  IF duplicateIndex = 0
        THEN Append(links, [id |-> fresh, ref |-> ownerId, extra |-> extra])
        ELSE [links EXCEPT ![duplicateIndex] =
                 [id |-> links[duplicateIndex].id, ref |-> ownerId, extra |-> extra]]

entryIdOf(links, ref) == links[entryIndex(links, ref)].id

\* array.splice(index, 1) for an index inside the array
spliceOne(links, index) == SubSeq(links, 1, index - 1) \o SubSeq(links, index + 1, Len(links))

\* removeLink without the test index > -1: splice(-1, 1) drops the last entry
removeLinkUnguarded(links, ref) ==
    LET index == entryIndex(links, ref)
    IN  IF index > 0 THEN spliceOne(links, index)
        ELSE IF Len(links) > 0 THEN spliceOne(links, Len(links))
        ELSE links

\* one side of _removeAssociation: the first entry that references the
\* document is spliced out; the array is left alone when there is none
removeLink(links, ref) ==
    LET index == entryIndex(links, ref)
    IN  IF index > 0 THEN spliceOne(links, index) ELSE links

\* Q.all(ownerObject.save(), childObject.save()) takes its first argument
\* only: the promise of the owner's save is the one the call waits for
awaitsChildSave(type) == type = "ONE_MANY"

\* oneManySaves with the owner saved as well
oneManySavesBoth(c, ownerLinks, childDoc, fk, awaited) ==
    {[n |-> c.n, k |-> c.k, kind |-> "child", id |-> c.child, links |-> childDoc.links,
      fk |-> fk, awaited |-> awaited],
     [n |-> c.n, k |-> c.k, kind |-> "owner", id |-> c.owner, links |-> ownerLinks,
      fk |-> 0, awaited |-> FALSE]}

\* ONE_MANY: childObject[association.foreignField] is assigned and the child
\* alone is saved
oneManySaves(c, ownerLinks, childDoc, fk, awaited) ==
    {[n |-> c.n, k |-> c.k, kind |-> "child", id |-> c.child, links |-> childDoc.links,
      fk |-> fk, awaited |-> awaited]}

\* MANY_MANY: the owner and the child are saved; awaited tells whether a
\* caller waits for the promise that Q.all returns
manyManySaves(c, ownerLinks, childLinks, childFk, awaited) ==
    {[n |-> c.n, k |-> c.k, kind |-> "owner", id |-> c.owner, links |-> ownerLinks,
      fk |-> 0, awaited |-> awaited],
     [n |-> c.n, k |-> c.k, kind |-> "child", id |-> c.child, links |-> childLinks,
      fk |-> childFk, awaited |-> awaited /\ awaitsChildSave("MANY_MANY")]}

\* what a call reported, with the call's arguments and the store it started on
report(c, outcome) ==
    [op |-> c.op, owner |-> c.owner, child |-> c.child, extra |-> c.extra,
     plain |-> c.plain, list |-> c.list, rest |-> c.rest, k |-> c.k,
     outcome |-> outcome, ownerEntry |-> c.ownerEntry, childEntry |-> c.childEntry,
     clean |-> c.clean, before |-> c.before, result |-> <<>>,
     where |-> c.where, error |-> c.error]

\* a call after the owner's findOne: its arguments, the owner as loaded, and
\* the position its report takes in the log
startCall(op, o, c, form, list) ==
    [op |-> op, owner |-> o, child |-> c, extra |-> form.extra, plain |-> form.plain,
     list |-> list, rest |-> IF Len(list) > 0 THEN Tail(list) ELSE <<>>,
     n |-> Len(log) + 1, k |-> 1, pc |-> "setAssociation",
     ownerObject |-> IF o \in OwnerIds THEN owners[o] ELSE <<>>,
     ownerEntry |-> 0, childEntry |-> 0,
     clean |-> (pending = {} /\ detached = {}),
     before |-> [owners |-> owners, children |-> children],
     where |-> 0, error |-> "none"]

\* the error a call ends with, as the rejected promise carries it
failed(c, error, outcome) == report([c EXCEPT !.error = error], outcome)

\* the repository calls that failed so far: saves and loads of the owner
failures ==
    Cardinality({s \in settled : ~s.ok})
        + Cardinality({n \in DOMAIN log : log[n].error = "repository error"})

\* ownerModel.findOne is rejected: no catch follows the then of the owner's
\* load, so the repository's error is what the caller's promise carries
ownerLoadFails(c) == failed(c, "repository error", "RepositoryError")

InitAssoc ==
    /\ ResolveIdle
    /\ RaceIdle
    /\ CmpIdle
    /\ VerIdle
    /\ GateIdle
    /\ CrudIdle
    /\ enableDocumentScopeFail = FALSE
    /\ assocType \in {"MANY_MANY", "ONE_MANY", "MANY_ONE"}
    /\ reciprocal \in BOOLEAN
    /\ (assocType # "MANY_MANY" => reciprocal)
    /\ owners = [o \in OwnerIds |-> <<>>]
    /\ children = [c \in ChildIds |-> [links |-> <<>>, fk |-> 0]]
    /\ nextId = 1
    /\ call = NoCall
    /\ pending = {}
    /\ settled = {}
    /\ detached = {}
    /\ log = <<>>

\* _addOne up to the owner's findOne: the owner is loaded, or the call ends
\* with a NOT_FOUND error
AddOneStart ==
    /\ call.pc = "idle"
    /\ Len(log) < MaxCalls
    /\ \E o \in OwnerIds \cup {MissingId}, c \in ChildIds \cup {MissingId}, x \in Extras,
          loads \in BOOLEAN :
           LET started == startCall("addOne", o, c, [plain |-> FALSE, extra |-> x], <<>>)
           IN  /\ (~loads => failures < MaxFailures)
               /\ IF ~loads
                  THEN call' = NoCall /\ log' = Append(log, ownerLoadFails(started))
                  ELSE IF o \in OwnerIds
                  THEN call' = started /\ log' = log
                  ELSE call' = NoCall /\ log' = Append(log, report(started, "NOT_FOUND"))
    /\ UNCHANGED <<resolveVars, raceVars, crudVars, cmpVars, verVars, enableDocumentScopeFail, gateVars, assocType, reciprocal, owners,
                   children, nextId, pending, settled, detached>>

\* _addMany up to the owner's findOne and the childIds of the payload: the
\* chain of linking steps starts with the first child, an empty payload
\* resolves at once, a missing owner ends the call with a NOT_FOUND error
AddManyStart ==
    /\ call.pc = "idle"
    /\ Len(log) < MaxCalls
    /\ \E o \in OwnerIds \cup {MissingId}, childIds \in ChildLists, form \in PayloadForms,
          loads \in BOOLEAN :
           LET started == startCall("addMany", o,
                                    IF Len(childIds) > 0 THEN Head(childIds) ELSE MissingId,
                                    form, childIds)
           IN  /\ (~loads => failures < MaxFailures)
               /\ IF ~loads
                  THEN call' = NoCall /\ log' = Append(log, ownerLoadFails(started))
                  ELSE IF o \notin OwnerIds
                  THEN call' = NoCall /\ log' = Append(log, report(started, "NOT_FOUND"))
                  ELSE IF Len(childIds) = 0
                  THEN call' = NoCall /\ log' = Append(log, report(started, "true"))
                  ELSE call' = started /\ log' = log
    /\ UNCHANGED <<resolveVars, raceVars, crudVars, cmpVars, verVars, enableDocumentScopeFail, gateVars, assocType, reciprocal, owners,
                   children, nextId, pending, settled, detached>>

\* _removeOne: the owner is loaded and _removeAssociation is called, but its
\* promise is not returned: the call resolves with undefined at once and the
\* removal runs on without a caller
RemoveOneStart ==
    /\ call.pc = "idle"
    /\ Len(log) < MaxCalls
    /\ \E o \in OwnerIds \cup {MissingId}, c \in ChildIds \cup {MissingId}, loads \in BOOLEAN :
           LET started == startCall("removeOne", o, c, [plain |-> FALSE, extra |-> "none"], <<>>)
           IN  /\ (~loads => failures < MaxFailures)
               /\ IF ~loads
                  THEN /\ log' = Append(log, ownerLoadFails(started))
                       /\ detached' = detached
                  ELSE IF o \in OwnerIds
                  THEN /\ log' = Append(log, report(started, "undefined"))
                       /\ detached' = detached \cup
                             {[n |-> started.n, k |-> 1, owner |-> o, child |-> c,
                               ownerObject |-> started.ownerObject]}
                  ELSE /\ log' = Append(log, report(started, "NOT_FOUND"))
                       /\ detached' = detached
    /\ UNCHANGED <<resolveVars, raceVars, crudVars, cmpVars, verVars, enableDocumentScopeFail, gateVars, assocType, reciprocal, owners,
                   children, nextId, call, pending, settled>>

\* the children of the collection, in collection order, whose _id is in ids
listByIds(ids) == SelectSeq([c \in ChildIds |-> c], LAMBDA c : c \in ids)

\* query.$where of a getAll call: no condition on _id, or _id equal to one id
NoIdCondition == 0

Wheres == {NoIdCondition} \cup ChildIds

\* result[associationName] mapped to the ids of the children: the owner's
\* entries for MANY_MANY, the children that hold the foreign key otherwise
associationIds(type, ownerLinks, o) ==
    IF type = "MANY_MANY"
    THEN {ownerLinks[i].ref : i \in DOMAIN ownerLinks}
    ELSE {c \in ChildIds : children[c].fk = o}

\* extend({'_id': { $in: childIds }}, query.$where): the keys of the caller's
\* $where are copied over the target, so its _id replaces the $in condition;
\* the value is the set of ids the resulting condition on _id admits
extendWhere(childIds, where) ==
    IF where = NoIdCondition THEN childIds ELSE {where}

\* _list on the child collection with the query of getAll: the children whose
\* _id satisfies query.$where
getAllResult(type, ownerLinks, o, where) ==
    listByIds(extendWhere(associationIds(type, ownerLinks, o), where))

\* the extra fields of the linking model are inserted into each child of a
\* MANY_MANY result; data.toJSON() throws for a child that no entry of the
\* owner references
insertsExtraFields(type, ownerLinks, result) ==
    type = "MANY_MANY" /\ \E i \in DOMAIN result :
                              \A j \in DOMAIN ownerLinks : ownerLinks[j].ref # result[i]

\* _getAll: the owner's findOne resolves with null for an id that matches no
\* document, and result[associationName] then throws a TypeError that nothing
\* in _getAll catches; the list of children otherwise
GetAll ==
    /\ call.pc = "idle"
    /\ Len(log) < MaxCalls
    /\ \E o \in OwnerIds \cup {MissingId}, w \in Wheres, loads \in BOOLEAN :
           LET started == [startCall("getAll", o, MissingId,
                                     [plain |-> FALSE, extra |-> "none"], <<>>)
                              EXCEPT !.where = w]
           IN  /\ (~loads => failures < MaxFailures)
               /\ IF ~loads
                  THEN log' = Append(log, ownerLoadFails(started))
                  ELSE IF o \notin OwnerIds
                  THEN log' = Append(log, failed(started, "TypeError", "TypeError"))
                  ELSE LET result == getAllResult(assocType, owners[o], o, w)
                       IN  IF insertsExtraFields(assocType, owners[o], result)
                           THEN log' = Append(log, failed(started, "TypeError", "BAD_REQUEST"))
                           ELSE log' = Append(log, [report(started, "list") EXCEPT
                                                       !.result = result])
    /\ UNCHANGED <<resolveVars, raceVars, crudVars, cmpVars, verVars, enableDocumentScopeFail, gateVars, assocType, reciprocal,
                   owners, children, nextId, call, pending, settled, detached>>

\* what the caller gets when a linking step is rejected: _addOne's catch
\* raises GATEWAY_TIMEOUT; in _addMany the catch is on a promise nobody
\* holds and the step's deferred is never settled, so the call never ends
linkFailure(op) == IF op = "addMany" THEN "unsettled" ELSE "GATEWAY_TIMEOUT"

\* what _setAssociation and _removeAssociation reject with before any save:
\* the child is not found, the type is neither ONE_MANY nor MANY_MANY, or
\* childAssociation is still {} after the loop over the child's associations
\* and childAssociation.include.as throws a TypeError
setAssociationError(childId) ==
    IF childId \notin ChildIds THEN "Child object not found."
    ELSE IF assocType \notin {"ONE_MANY", "MANY_MANY"}
    THEN "Association type incorrectly defined."
    ELSE IF assocType = "MANY_MANY" /\ ~reciprocal THEN "TypeError"
    ELSE "none"

\* _setAssociation from the child's findOne to the saves it issues, as the
\* linking step of _addOne or the current step of _addMany
SetAssociation ==
    /\ call.pc = "setAssociation"
    /\ IF setAssociationError(call.child) # "none"
       THEN /\ log' = Append(log, failed(call, setAssociationError(call.child),
                                         linkFailure(call.op)))
            /\ call' = NoCall
            /\ UNCHANGED <<pending, nextId>>
       ELSE IF assocType = "ONE_MANY"
       THEN /\ pending' = pending \cup
                  oneManySaves(call, call.ownerObject, children[call.child], call.owner, TRUE)
            /\ call' = [call EXCEPT !.pc = "saving"]
            /\ UNCHANGED <<log, nextId>>
       ELSE LET extra == IF call.plain THEN "none" ELSE call.extra
                ownerLinks == setOwnerLink(call.ownerObject, call.child, extra,
                                           ~call.plain, nextId)
                pushed == IF Len(ownerLinks) > Len(call.ownerObject) THEN 1 ELSE 0
                childLinks == setChildLink(children[call.child].links, call.owner,
                                           extra, nextId + pushed)
                pushedChild == IF Len(childLinks) > Len(children[call.child].links)
                               THEN 1 ELSE 0
            IN  /\ pending' = pending \cup
                      manyManySaves(call, ownerLinks, childLinks,
                                    children[call.child].fk, TRUE)
                /\ nextId' = nextId + pushed + pushedChild
                /\ call' = [call EXCEPT !.pc = "saving", !.ownerObject = ownerLinks,
                                        !.ownerEntry = entryIdOf(ownerLinks, call.child),
                                        !.childEntry = entryIdOf(childLinks, call.owner)]
                /\ log' = log
    /\ UNCHANGED <<resolveVars, raceVars, crudVars, cmpVars, verVars, enableDocumentScopeFail, gateVars, assocType, reciprocal, owners,
                   children, settled, detached>>

\* _removeAssociation, running after _removeOne has resolved: the child's
\* findOne, the two splices and the saves; a rejection ends in a catch whose
\* error reaches nobody
RemoveAssociation ==
    /\ \E t \in detached :
           /\ detached' = detached \ {t}
           /\ IF setAssociationError(t.child) # "none"
              THEN pending' = pending
              ELSE IF assocType = "ONE_MANY"
              THEN pending' = pending \cup
                       oneManySaves(t, t.ownerObject, children[t.child], 0, FALSE)
              ELSE pending' = pending \cup
                       manyManySaves(t, removeLink(t.ownerObject, t.child),
                                     removeLink(children[t.child].links, t.owner),
                                     children[t.child].fk, FALSE)
    /\ UNCHANGED <<resolveVars, raceVars, crudVars, cmpVars, verVars, enableDocumentScopeFail, gateVars, assocType, reciprocal, owners,
                   children, nextId, call, settled, log>>

\* the call moves on when the promise it waits for is fulfilled: _addOne and
\* the last step of _addMany resolve with true, an earlier step of _addMany
\* hands over to the next child
afterStep(c) ==
    IF Len(c.rest) = 0 THEN NoCall
    ELSE [c EXCEPT !.child = Head(c.rest), !.rest = Tail(c.rest), !.k = c.k + 1,
                   !.pc = "setAssociation"]

\* a save completes: the document is written as it was in memory, and the
\* call goes on when this is the save its promise waits for
SaveCompletes ==
    /\ \E p \in pending :
           /\ pending' = pending \ {p}
           /\ settled' = settled \cup
                  {[n |-> p.n, k |-> p.k, kind |-> p.kind, id |-> p.id, ok |-> TRUE]}
           /\ IF p.kind = "owner"
              THEN /\ owners' = [owners EXCEPT ![p.id] = p.links]
                   /\ UNCHANGED children
              ELSE /\ children' = [children EXCEPT ![p.id] = [links |-> p.links, fk |-> p.fk]]
                   /\ UNCHANGED owners
           /\ IF p.awaited
              THEN /\ call' = afterStep(call)
                   /\ log' = IF Len(call.rest) = 0 THEN Append(log, report(call, "true"))
                             ELSE log
              ELSE UNCHANGED <<log, call>>
    /\ UNCHANGED <<resolveVars, raceVars, crudVars, cmpVars, verVars, enableDocumentScopeFail, gateVars, assocType, reciprocal, nextId,
                   detached>>

\* a save fails: nothing is written; when it is the save the call waits for,
\* the linking step is rejected. At most MaxFailures repository calls fail
\* in a run.
SaveFails ==
    /\ failures < MaxFailures
    /\ \E p \in pending :
           /\ pending' = pending \ {p}
           /\ settled' = settled \cup
                  {[n |-> p.n, k |-> p.k, kind |-> p.kind, id |-> p.id, ok |-> FALSE]}
           /\ IF p.awaited
              THEN /\ log' = Append(log, failed(call, "save error", linkFailure(call.op)))
                   /\ call' = NoCall
              ELSE UNCHANGED <<log, call>>
    /\ UNCHANGED <<resolveVars, raceVars, crudVars, cmpVars, verVars, enableDocumentScopeFail, gateVars, assocType, reciprocal, owners,
                   children, nextId, detached>>

NextAssoc ==
    \/ AddOneStart
    \/ AddManyStart
    \/ RemoveOneStart
    \/ GetAll
    \/ SetAssociation
    \/ RemoveAssociation
    \/ SaveCompletes
    \/ SaveFails

SpecAssoc == InitAssoc /\ [][NextAssoc]_vars

\* ------------------------------------------------------------------------
\* SpecCrud: list, find, create, update and delete of one caller, run one
\* after another against one collection
\* ------------------------------------------------------------------------
CrudIds == 1..MaxCrudDocs

\* an _id that matches no document of the collection
UnknownId == MaxCrudDocs + 1

\* the content of a payload
Values == {"a", "b"}

\* the payload of delete: undefined, or an object that may carry hardDelete
DeletePayloads ==
    {[defined |-> FALSE, hardDelete |-> FALSE]}
        \cup {[defined |-> TRUE, hardDelete |-> h] : h \in BOOLEAN}

\* whether each step of a call succeeds when the call reaches it: the
\* pre-hook, the repository call, the read that follows it, the post-hook
Fates == [pre : BOOLEAN, repo : BOOLEAN, read : BOOLEAN, post : BOOLEAN]

\* the date at which the documents of the initial collection were created
FirstDate == 1

\* new Date(): one tick per call
newDate == FirstDate + Len(history) + 1

\* a settled promise: fulfilled, or rejected with an error of some kind
fulfilled == [ok |-> TRUE, kind |-> "none"]

rejected(kind) == [ok |-> FALSE, kind |-> kind]

\* errorHelper.handleError(error, message, type, Log): raises a failure of
\* the given type
handleError(error, type) == rejected(type)

\* promise.catch(function (error) { errorHelper.handleError(error, message, type, Log) })
catch(promise, type) == IF promise.ok THEN promise ELSE handleError(promise, type)

\* a step of a call as it happened
step(name, ok) == [step |-> name, ok |-> ok]

\* the events of a hook that runs only if the collection defines it
hookEvents(defined, name, ok) == IF defined THEN <<step(name, ok)>> ELSE <<>>

\* the promise of a hook: Q.when(...) when the collection defines none
hookPromise(defined, ok) == IF defined /\ ~ok THEN rejected("HookError") ELSE fulfilled

\* what a call did: its steps in order, the settlement of the promise it
\* returned, and the collection it left
done(events, promise, documents) ==
    [events |-> events, outcome |-> promise, collection |-> documents]

found(documents, id) == id \in DOMAIN documents /\ documents[id].present

\* _list: find, then the post-hook; no pre-hook is looked up
_list(fate) ==
    IF ~fate.repo
    THEN done(<<step("find", FALSE)>>, catch(rejected("RepositoryError"), "SERVER_TIMEOUT"),
              collection)
    ELSE done(<<step("find", TRUE)>> \o hookEvents(routeOptions.post, "post", fate.post),
              catch(catch(hookPromise(routeOptions.post, fate.post), "BAD_REQUEST"),
                    "SERVER_TIMEOUT"),
              collection)

\* _find: findOne, then the post-hook when a document was found; no pre-hook
\* is looked up
_find(id, fate) ==
    IF ~fate.repo
    THEN done(<<step("findOne", FALSE)>>,
              catch(rejected("RepositoryError"), "SERVER_TIMEOUT"), collection)
    ELSE IF found(collection, id)
    THEN done(<<step("findOne", TRUE)>> \o hookEvents(routeOptions.post, "post", fate.post),
              catch(catch(hookPromise(routeOptions.post, fate.post), "BAD_REQUEST"),
                    "SERVER_TIMEOUT"),
              collection)
    ELSE done(<<step("findOne", TRUE)>>,
              catch(handleError("No resource was found with that id.", "NOT_FOUND"),
                    "SERVER_TIMEOUT"),
              collection)

\* create with the timestamps set whatever config.enableCreatedAt is
stampCreatedAlways(document, enabled, date) ==
    [document EXCEPT !.createdAt = date, !.updatedAt = date]

\* if (config.enableCreatedAt) { payload.createdAt = new Date(); payload.updatedAt = new Date(); }
stampCreated(document, enabled, date) ==
    IF enabled THEN [document EXCEPT !.createdAt = date, !.updatedAt = date] ELSE document

\* if (config.enableUpdatedAt) { payload.updatedAt = new Date(); }
stampUpdated(fields, enabled, date) ==
    IF enabled THEN [fields EXCEPT !.updatedAt = date] ELSE fields

\* the payload of create and update as a document: no timestamp field
asDocument(value) == [NoDocument EXCEPT !.present = TRUE, !.value = value]

\* the _id the repository gives to the next document
freeId(documents) == CHOOSE i \in DOMAIN documents :
                         ~documents[i].present
                             /\ \A j \in DOMAIN documents : ~documents[j].present => i <= j

\* findByIdAndUpdate(_id, fields): the fields that are set replace the
\* document's
setFields(document, fields) ==
    [document EXCEPT !.value = IF fields.value = "none" THEN @ ELSE fields.value,
                     !.updatedAt = IF fields.updatedAt = 0 THEN @ ELSE fields.updatedAt,
                     !.isDeleted = fields.isDeleted \/ @,
                     !.deletedAt = IF fields.deletedAt = 0 THEN @ ELSE fields.deletedAt]

\* _create: the pre-hook, the timestamps, model.create, the read of the new
\* document and the post-hook
_create(value, fate) ==
    LET pre == hookEvents(routeOptions.pre, "pre", fate.pre)
        data == stampCreated(asDocument(value), config.enableCreatedAt, newDate)
        created == [collection EXCEPT ![freeId(collection)] = data]
    IN  IF routeOptions.pre /\ ~fate.pre
        THEN done(pre, catch(rejected("HookError"), "BAD_REQUEST"), collection)
        ELSE IF ~fate.repo
        THEN done(pre \o <<step("create", FALSE)>>,
                  catch(catch(rejected("RepositoryError"), "SERVER_TIMEOUT"), "BAD_REQUEST"),
                  collection)
        ELSE IF ~fate.read
        THEN done(pre \o <<step("create", TRUE), step("findOne", FALSE)>>,
                  catch(catch(rejected("RepositoryError"), "SERVER_TIMEOUT"), "BAD_REQUEST"),
                  created)
        ELSE done(pre \o <<step("create", TRUE), step("findOne", TRUE)>>
                      \o hookEvents(routeOptions.post, "post", fate.post),
                  catch(catch(catch(hookPromise(routeOptions.post, fate.post), "BAD_REQUEST"),
                              "SERVER_TIMEOUT"), "BAD_REQUEST"),
                  created)

\* _update: the pre-hook, the timestamp, findByIdAndUpdate, the read of the
\* updated document and the post-hook
_update(id, value, fate) ==
    LET pre == hookEvents(routeOptions.pre, "pre", fate.pre)
        fields == stampUpdated([NoDocument EXCEPT !.value = value], config.enableUpdatedAt, newDate)
        updated == [collection EXCEPT ![id] = setFields(@, fields)]
    IN  IF routeOptions.pre /\ ~fate.pre
        THEN done(pre, catch(rejected("HookError"), "BAD_REQUEST"), collection)
        ELSE IF ~fate.repo
        THEN done(pre \o <<step("findByIdAndUpdate", FALSE)>>,
                  catch(catch(rejected("RepositoryError"), "SERVER_TIMEOUT"), "BAD_REQUEST"),
                  collection)
        ELSE IF ~found(collection, id)
        THEN done(pre \o <<step("findByIdAndUpdate", TRUE)>>,
                  catch(catch(handleError("No resource was found with that id.", "NOT_FOUND"),
                              "SERVER_TIMEOUT"), "BAD_REQUEST"),
                  collection)
        ELSE IF ~fate.read
        THEN done(pre \o <<step("findByIdAndUpdate", TRUE), step("findOne", FALSE)>>,
                  catch(catch(rejected("RepositoryError"), "SERVER_TIMEOUT"), "BAD_REQUEST"),
                  updated)
        ELSE done(pre \o <<step("findByIdAndUpdate", TRUE), step("findOne", TRUE)>>
                      \o hookEvents(routeOptions.post, "post", fate.post),
                  catch(catch(catch(hookPromise(routeOptions.post, fate.post), "BAD_REQUEST"),
                              "SERVER_TIMEOUT"), "BAD_REQUEST"),
                  updated)

\* delete that looks at config.enableSoftDelete alone
isSoftDeleteByConfig(enableSoftDelete, body) == enableSoftDelete

\* config.enableSoftDelete && !(payload && payload.hardDelete)
isSoftDelete(enableSoftDelete, body) ==
    enableSoftDelete /\ ~(body.defined /\ body.hardDelete)

\* _delete: the pre-hook, then findByIdAndUpdate with isDeleted and deletedAt
\* or findByIdAndRemove, and the post-hook when a document was found
_delete(id, body, fate) ==
    LET pre == hookEvents(routeOptions.pre, "pre", fate.pre)
        soft == isSoftDelete(config.enableSoftDelete, body)
        method == IF soft THEN "findByIdAndUpdate" ELSE "findByIdAndRemove"
        deleted == IF soft
                   THEN [collection EXCEPT ![id] =
                            setFields(@, [NoDocument EXCEPT !.isDeleted = TRUE,
                                                            !.deletedAt = newDate])]
                   ELSE [collection EXCEPT ![id] = NoDocument]
    IN  IF routeOptions.pre /\ ~fate.pre
        THEN done(pre, catch(rejected("HookError"), "BAD_REQUEST"), collection)
        ELSE IF ~fate.repo
        THEN done(pre \o <<step(method, FALSE)>>,
                  catch(catch(rejected("RepositoryError"), "SERVER_TIMEOUT"), "BAD_REQUEST"),
                  collection)
        ELSE IF ~found(collection, id)
        THEN done(pre \o <<step(method, TRUE)>>,
                  catch(catch(handleError("No resource was found with that id.", "NOT_FOUND"),
                              "SERVER_TIMEOUT"), "BAD_REQUEST"),
                  collection)
        ELSE done(pre \o <<step(method, TRUE)>>
                      \o hookEvents(routeOptions.post, "post", fate.post),
                  catch(catch(catch(hookPromise(routeOptions.post, fate.post), "BAD_REQUEST"),
                              "SERVER_TIMEOUT"), "BAD_REQUEST"),
                  deleted)

\* the entry of the history for a call: its arguments, what it did, and the
\* collection before and after it
entry(op, id, value, body, did) ==
    [op |-> op, id |-> id, value |-> value, body |-> body, at |-> newDate,
     events |-> did.events, outcome |-> IF did.outcome.ok THEN "ok" ELSE did.outcome.kind,
     before |-> collection, after |-> did.collection]

NoBody == [defined |-> FALSE, hardDelete |-> FALSE]

InitCrud ==
    /\ ResolveIdle
    /\ RaceIdle
    /\ CmpIdle
    /\ VerIdle
    /\ GateIdle
    /\ AssocIdle
    /\ enableDocumentScopeFail = FALSE
    /\ config \in [enableSoftDelete : BOOLEAN, enableCreatedAt : BOOLEAN,
                   enableUpdatedAt : BOOLEAN]
    /\ routeOptions \in [pre : BOOLEAN, post : BOOLEAN]
    /\ \E first \in {asDocument("a"), stampCreated(asDocument("a"), TRUE, FirstDate)} :
           collection = [i \in CrudIds \cup {UnknownId} |->
                            IF i = 1 THEN first ELSE NoDocument]
    /\ history = <<>>

finish(op, id, value, body, did) ==
    /\ history' = Append(history, entry(op, id, value, body, did))
    /\ collection' = did.collection
    /\ UNCHANGED <<resolveVars, raceVars, cmpVars, verVars, enableDocumentScopeFail, gateVars,
                   assocVars, config,
                   routeOptions>>

List ==
    /\ Len(history) < MaxOps
    /\ \E fate \in Fates : finish("list", 0, "none", NoBody, _list(fate))

Find ==
    /\ Len(history) < MaxOps
    /\ \E id \in CrudIds \cup {UnknownId}, fate \in Fates :
           finish("find", id, "none", NoBody, _find(id, fate))

Create ==
    /\ Len(history) < MaxOps
    /\ \E i \in CrudIds : ~collection[i].present
    /\ \E value \in Values, fate \in Fates :
           finish("create", 0, value, NoBody, _create(value, fate))

Update ==
    /\ Len(history) < MaxOps
    /\ \E id \in CrudIds \cup {UnknownId}, value \in Values, fate \in Fates :
           finish("update", id, value, NoBody, _update(id, value, fate))

Delete ==
    /\ Len(history) < MaxOps
    /\ \E id \in CrudIds \cup {UnknownId}, body \in DeletePayloads, fate \in Fates :
           finish("delete", id, "none", body, _delete(id, body, fate))

NextCrud == List \/ Find \/ Create \/ Update \/ Delete

SpecCrud == InitCrud /\ [][NextCrud]_vars

\* ------------------------------------------------------------------------
\* SpecResolve: the reciprocal association array that _setAssociation and
\* _removeAssociation pick on the child, for every list of association
\* descriptors of the child model within the bounds
\* ------------------------------------------------------------------------
\* ownerModel.modelName, and the model of the child's other associations
OwnerModelName == "owner"

\* association.include.as: the field of the child document
FieldNames == {"owners", "managers", "members"}

\* a descriptor: the associated model (the owner's or another), the
\* association type and the field
Descriptors ==
    [model : {OwnerModelName, "other"}, type : {"MANY_MANY", "ONE_MANY", "MANY_ONE"},
     as : FieldNames]

\* the descriptors of a model, in the order of their keys; no two of them
\* name the same field
DescriptorLists ==
    {d \in SeqsUpTo(Descriptors, MaxDescriptors) :
         \A i, j \in DOMAIN d : i # j => d[i].as # d[j].as}

\* the descriptor the for-in loop leaves in childAssociation: the last one
\* that passes the test; reading include.as of {} throws when none does
lastOf(associations, hits) ==
    IF hits = {} THEN "TypeError"
    ELSE associations[CHOOSE i \in hits : \A j \in hits : j <= i].as

\* childAssociationName in _setAssociation
setAssociationName(associations, modelName) ==
    lastOf(associations, {i \in DOMAIN associations :
                              /\ associations[i].model = modelName
                              /\ associations[i].type = "MANY_MANY"})

\* childAssociationName in _removeAssociation
removeAssociationName(associations, modelName) ==
    lastOf(associations, {i \in DOMAIN associations : associations[i].model = modelName})

\* the child document of a model: an array for each MANY_MANY association,
\* no array in the field of any other association
documentOf(associations) ==
    [f \in FieldNames |->
        [array |-> \E i \in DOMAIN associations :
                       associations[i].as = f /\ associations[i].type = "MANY_MANY",
         links |-> <<>>]]

\* the owner document of the two calls
ResolveOwner == 1

InitResolve ==
    /\ RaceIdle
    /\ CmpIdle
    /\ VerIdle
    /\ GateIdle
    /\ AssocIdle
    /\ CrudIdle
    /\ enableDocumentScopeFail = FALSE
    /\ childAssociations \in DescriptorLists
    /\ childObject = documentOf(childAssociations)
    /\ resolution = NoResolution

\* the child's side of _setAssociation for a MANY_MANY association: the
\* entry for the owner is pushed on the array of the resolved name
SetResolves ==
    /\ resolution.add = "none"
    /\ LET childAssociationName == setAssociationName(childAssociations, OwnerModelName)
       IN  /\ resolution' = [resolution EXCEPT !.add = childAssociationName]
           /\ childObject' =
                  IF childAssociationName = "TypeError" THEN childObject
                  ELSE IF ~childObject[childAssociationName].array THEN childObject
                  ELSE [childObject EXCEPT ![childAssociationName].links =
                           setChildLink(@, ResolveOwner, "none", 1)]
    /\ UNCHANGED <<raceVars, crudVars, cmpVars, verVars, enableDocumentScopeFail, gateVars,
                   assocVars, childAssociations>>

\* the child's side of _removeAssociation for a MANY_MANY association: the
\* entry for the owner is spliced out of the array of the resolved name;
\* filter on a field that holds no array throws
RemoveResolves ==
    /\ resolution.add # "none"
    /\ resolution.remove = "none"
    /\ LET childAssociationName == removeAssociationName(childAssociations, OwnerModelName)
       IN  /\ resolution' = [resolution EXCEPT !.remove = childAssociationName]
           /\ childObject' =
                  IF childAssociationName = "TypeError" THEN childObject
                  ELSE IF ~childObject[childAssociationName].array THEN childObject
                  ELSE [childObject EXCEPT ![childAssociationName].links =
                           removeLink(@, ResolveOwner)]
    /\ UNCHANGED <<raceVars, crudVars, cmpVars, verVars, enableDocumentScopeFail, gateVars,
                   assocVars, childAssociations>>

NextResolve == SetResolves \/ RemoveResolves

SpecResolve == InitResolve /\ [][NextResolve]_vars

\* ------------------------------------------------------------------------
\* SpecRace: addOne requests for one owner and different children that run
\* at the same time on a MANY_MANY association; each request loads its own
\* owner and child documents, and save() writes the document as the request
\* holds it
\* ------------------------------------------------------------------------
\* the owner document of the requests
RaceOwner == 1

\* the children of the requests: a different child for each request
ChildChoices ==
    {f \in [1..MaxRequests -> ChildIds] : \A p, q \in 1..MaxRequests : p # q => f[p] # f[q]}

\* the _id Mongoose gives the entry a request pushes on the owner and on the
\* child: unique for each entry
ownerEntryId(p) == 2 * p - 1

childEntryId(p) == 2 * p

newRequest(c, x) ==
    [child |-> c, extra |-> x, pc |-> "start", ownerObject |-> <<>>, childLinks |-> <<>>,
     ownerSave |-> "none", childSave |-> "none", outcome |-> "none"]

\* the saves of the requests that were rejected
raceFailures ==
    Cardinality({p \in DOMAIN requests : requests[p].ownerSave = "failed"})
    + Cardinality({p \in DOMAIN requests : requests[p].childSave = "failed"})

InitRace ==
    /\ ResolveIdle
    /\ CmpIdle
    /\ VerIdle
    /\ GateIdle
    /\ AssocIdle
    /\ CrudIdle
    /\ enableDocumentScopeFail = FALSE
    /\ ownerDocument = <<>>
    /\ childDocuments = [c \in ChildIds |-> <<>>]
    /\ \E f \in ChildChoices, x \in [1..MaxRequests -> Extras] :
           requests = [p \in 1..MaxRequests |-> newRequest(f[p], x[p])]

\* _addOne: ownerModel.findOne answers with the owner as persisted now
RaceLoadOwner ==
    /\ \E p \in DOMAIN requests :
           /\ requests[p].pc = "start"
           /\ requests' = [requests EXCEPT ![p].pc = "owner", ![p].ownerObject = ownerDocument]
    /\ UNCHANGED <<resolveVars, crudVars, cmpVars, verVars, enableDocumentScopeFail, gateVars,
                   assocVars, ownerDocument, childDocuments>>

\* _setAssociation: childModel.findOne answers with the child as persisted
\* now; the entry is set on the loaded owner and on the child and both
\* saves are issued
RaceSetAssociation ==
    /\ \E p \in DOMAIN requests :
           LET t == requests[p]
           IN  /\ t.pc = "owner"
               /\ requests' =
                      [requests EXCEPT
                          ![p].pc = "saving",
                          ![p].ownerObject =
                              setOwnerLink(t.ownerObject, t.child, t.extra, TRUE, ownerEntryId(p)),
                          ![p].childLinks =
                              setChildLink(childDocuments[t.child], RaceOwner, t.extra,
                                           childEntryId(p)),
                          ![p].ownerSave = "sent",
                          ![p].childSave = "sent"]
    /\ UNCHANGED <<resolveVars, crudVars, cmpVars, verVars, enableDocumentScopeFail, gateVars,
                   assocVars, ownerDocument, childDocuments>>

\* a save completes: the document is persisted as the request holds it; the
\* owner's save is the promise the request waits for and reports success on
RaceSaveCompletes ==
    /\ \E p \in DOMAIN requests :
           \/ /\ requests[p].ownerSave = "sent"
              /\ ownerDocument' = requests[p].ownerObject
              /\ requests' = [requests EXCEPT ![p].ownerSave = "saved", ![p].pc = "done",
                                              ![p].outcome = "true"]
              /\ UNCHANGED childDocuments
           \/ /\ requests[p].childSave = "sent"
              /\ childDocuments' = [childDocuments EXCEPT ![requests[p].child] =
                                       requests[p].childLinks]
              /\ requests' = [requests EXCEPT ![p].childSave = "saved"]
              /\ UNCHANGED ownerDocument
    /\ UNCHANGED <<resolveVars, crudVars, cmpVars, verVars, enableDocumentScopeFail, gateVars,
                   assocVars>>

\* a save is rejected: the owner's rejection reaches the catch of _addOne,
\* the child's reaches nobody
RaceSaveFails ==
    /\ raceFailures < MaxFailures
    /\ \E p \in DOMAIN requests :
           \/ /\ requests[p].ownerSave = "sent"
              /\ requests' = [requests EXCEPT ![p].ownerSave = "failed", ![p].pc = "done",
                                              ![p].outcome = "GATEWAY_TIMEOUT"]
           \/ /\ requests[p].childSave = "sent"
              /\ requests' = [requests EXCEPT ![p].childSave = "failed"]
    /\ UNCHANGED <<resolveVars, crudVars, cmpVars, verVars, enableDocumentScopeFail, gateVars,
                   assocVars, ownerDocument, childDocuments>>

NextRace == RaceLoadOwner \/ RaceSetAssociation \/ RaceSaveCompletes \/ RaceSaveFails

SpecRace == InitRace /\ [][NextRace]_vars

\* ------------------------------------------------------------------------
\* The comparator's contract of the specification, used to state the claims
\* ------------------------------------------------------------------------
HoldsForbidden(userScope, documentScope) ==
    \E i \in DOMAIN documentScope :
        FirstChar(documentScope[i]) = "!" /\ substr1(documentScope[i]) \in userScope

LacksRequired(userScope, documentScope) ==
    \E i \in DOMAIN documentScope :
        FirstChar(documentScope[i]) = "+" /\ substr1(documentScope[i]) \notin userScope

IsGeneral(scopeValue) == FirstChar(scopeValue) \notin {"!", "+"}

HasGeneral(documentScope) == \E i \in DOMAIN documentScope : IsGeneral(documentScope[i])

HoldsGeneral(userScope, documentScope) ==
    \E i \in DOMAIN documentScope :
        IsGeneral(documentScope[i]) /\ documentScope[i] \in userScope

\* C1: whenever the document scope holds '!t' and the caller holds t,
\* compareScopes returns the value false, whatever the other tokens are.
C1_ForbiddenReturnsFalse ==
    (cmpResult # "none" /\ HoldsForbidden(cmpUser, cmpDoc)) => cmpResult = "false"

\* C2: whenever the document scope holds '+t' and the caller lacks t,
\* compareScopes returns false, whatever general tokens are shared; and when
\* the caller holds every required token, the required check alone does not
\* make the result false (no forbidden token held, general check satisfied).
C2_RequiredReturnsFalse ==
    /\ (cmpResult # "none" /\ LacksRequired(cmpUser, cmpDoc)) => cmpResult = "false"
    /\ ( /\ cmpResult # "none"
         /\ Len(cmpDoc) > 0
         /\ ~LacksRequired(cmpUser, cmpDoc)
         /\ ~HoldsForbidden(cmpUser, cmpDoc)
         /\ (HasGeneral(cmpDoc) => HoldsGeneral(cmpUser, cmpDoc)) )
       => cmpResult # "false"

\* C3: for a non-empty document scope of general tokens only, compareScopes
\* returns true exactly when the caller holds at least one of them, at any
\* position of the list.
C3_GeneralAnyOf ==
    ( /\ cmpResult # "none"
      /\ Len(cmpDoc) > 0
      /\ \A i \in DOMAIN cmpDoc : IsGeneral(cmpDoc[i]) )
    => (cmpResult = "true" <=> HoldsGeneral(cmpUser, cmpDoc))

\* ------------------------------------------------------------------------
\* Claims about verifyScope
\* ------------------------------------------------------------------------
ListOrEmpty(field) == IF field = ABSENT THEN <<>> ELSE field

\* the composition rule of the specification: the global list followed by
\* the action's list when the global list is non-empty, the action's list
\* alone otherwise; an absent list contributes nothing
ComposedScope(policy, action) ==
    IF Len(ListOrEmpty(policy.scope)) > 0
    THEN ListOrEmpty(policy.scope) \o ListOrEmpty(actionScopeOf(policy, action))
    ELSE ListOrEmpty(actionScopeOf(policy, action))

\* a document with no scope policy, an empty scope policy, or an empty
\* effective scope list for the action
Unrestricted(document, action) ==
    \/ ~document.scope.has
    \/ document.scope = Policy(ABSENT, ABSENT, ABSENT, ABSENT, ABSENT)
    \/ action \in Actions /\ ComposedScope(document.scope, action) = <<>>

\* C4: a document with no scope policy, an empty scope policy or an empty
\* effective scope list is never among unauthorizedDocs, and a list made of
\* such documents only is authorized, for every caller scope set and action.
C4_UnrestrictedNeverBlocks ==
    vResult.kind # "none" =>
        /\ \A i \in DOMAIN vResult.unauthorizedDocs :
               ~Unrestricted(vResult.unauthorizedDocs[i], vAction)
        /\ (\A i \in DOMAIN vDocs : Unrestricted(vDocs[i], vAction)) =>
               /\ vResult.kind = "ok"
               /\ vResult.authorized
               /\ vResult.unauthorizedDocs = <<>>

\* a caller without any scope reads two documents, one without a policy and
\* one whose policy holds only empty lists, and is authorized
C4_Witness ==
    /\ vResult.kind = "ok"
    /\ vResult.authorized
    /\ vUser = {}
    /\ Len(vDocs) = 2
    /\ vDocs[1].scope = NoPolicy
    /\ vDocs[2].scope = Policy(<<>>, <<>>, <<>>, <<>>, <<>>)
    /\ vAction = "delete"

\* C5: the list verifyScope hands to compareScopes is the global list followed
\* by the action's list when the global list is non-empty, and the action's
\* list alone otherwise; with the action's list absent it is the global list.
C5_EffectiveScopeComposition ==
    \A i \in DOMAIN vResult.compared :
        LET passed == vResult.compared[i]
        IN  passed.documentScope = ComposedScope(vDocs[passed.id].scope, vAction)

\* ------------------------------------------------------------------------
\* Claims about the pre-check and the post-check
\* ------------------------------------------------------------------------

\* the comparator of the specification: no forbidden token held, every
\* required token held, and one general token held when there is any
Satisfies(userScope, documentScope) ==
    /\ ~HoldsForbidden(userScope, documentScope)
    /\ ~LacksRequired(userScope, documentScope)
    /\ HasGeneral(documentScope) => HoldsGeneral(userScope, documentScope)

\* the document fails the scope check for the action
FailsScope(doc, action, userScope) ==
    /\ ~Unrestricted(doc, action)
    /\ ~Satisfies(userScope, ComposedScope(doc.scope, action))

IsBulkDelete(req) ==
    req.method = "delete" /\ req.id = 0 /\ req.ownerId = 0 /\ req.payload # NoPayload

RECURSIVE authorizedItems(_, _, _)
authorizedItems(body, docs, userScope) ==
    IF body = <<>> THEN <<>>
    ELSE (IF FailsScope(storedDocument(docs, Head(body)), "delete", userScope) THEN <<>>
          ELSE <<Head(body)>>)
         \o authorizedItems(Tail(body), docs, userScope)

\* C6: a bulk delete some of whose ids fail the scope check proceeds in
\* lenient mode with exactly the authorized items left in the payload, in
\* their order, and is rejected with a forbidden error in strict mode.
C6_BulkDeleteFiltersOrRejects ==
    ( /\ preOutcome # "none"
      /\ IsBulkDelete(request)
      /\ \E i \in DOMAIN request.payload :
             FailsScope(storedDocument(store, request.payload[i]), "delete", request.user) )
    => IF enableDocumentScopeFail
       THEN preOutcome = "forbidden"
       ELSE /\ preOutcome = "continue"
            /\ payload = authorizedItems(request.payload, store, request.user)

IsListRead(req) == req.method = "get" /\ req.id = 0

\* C7: after the post-check of a list read in lenient mode the response
\* succeeds with every authorized document unchanged at its position and
\* every unauthorized one replaced by the error placeholder; in strict mode
\* an unauthorized document makes the list fail with a forbidden error.
C7_ListRedactsOrRejects ==
    (postOutcome # "none" /\ IsListRead(request)) =>
        LET source == readResult(store, request)
            fails(i) == FailsScope(source[i], "read", request.user)
        IN  IF enableDocumentScopeFail
            THEN (\E i \in DOMAIN source : fails(i)) => postOutcome = "forbidden"
            ELSE /\ postOutcome = "continue"
                 /\ Len(response) = Len(source)
                 /\ \A i \in DOMAIN source :
                        response[i] = IF fails(i) THEN ErrorPlaceholder ELSE source[i]

\* C8: the post-check of a read by _id of a document that fails the read
\* scope check ends with a forbidden error, in strict and in lenient mode.
C8_SingleReadForbidden ==
    ( /\ postOutcome # "none"
      /\ request.method = "get"
      /\ request.id # 0
      /\ FailsScope(storedDocument(store, request.id), "read", request.user) )
    => postOutcome = "forbidden"

\* ------------------------------------------------------------------------
\* Claims about the association calls
\* ------------------------------------------------------------------------
Quiescent == call.pc = "idle" /\ pending = {} /\ detached = {}

linksTo(links, ref) == SelectSeq(links, LAMBDA e : e.ref = ref)

\* C10: after addOne(owner, child) was called twice with the same extra
\* fields on a MANY_MANY association, and every save has completed, the owner
\* holds exactly one entry for the child and the child exactly one for the
\* owner, each with the _id it had after the first call.
C10_AddOneTwiceKeepsOneEntry ==
    ( /\ assocType = "MANY_MANY"
      /\ Quiescent
      /\ Len(log) = 2
      /\ log[1].op = "addOne" /\ log[2].op = "addOne"
      /\ log[1].outcome = "true" /\ log[2].outcome = "true"
      /\ log[1].owner = log[2].owner
      /\ log[1].child = log[2].child
      /\ log[1].extra = log[2].extra )
    => LET onOwner == linksTo(owners[log[1].owner], log[1].child)
           onChild == linksTo(children[log[1].child].links, log[1].owner)
       IN  /\ Len(onOwner) = 1
           /\ Len(onChild) = 1
           /\ onOwner[1].id = log[1].ownerEntry
           /\ onChild[1].id = log[1].childEntry

\* ------------------------------------------------------------------------
\* Claims about removeOne, addMany and getAll
\* ------------------------------------------------------------------------
Succeeded(r) == r.outcome \in {"true", "undefined"}

ownerHolds(o, c) == entryIndex(owners[o], c) # 0

childHolds(o, c) == entryIndex(children[c].links, o) # 0

\* the last call has reported, no call has started since, and nothing was in
\* flight when it started
LastAlone == Len(log) > 0 /\ call.pc = "idle" /\ log[Len(log)].clean

\* every save and every detached run of call n has ended, no save failed
Landed(n) ==
    /\ \A p \in pending : p.n # n
    /\ \A t \in detached : t.n # n
    /\ \A s \in settled : s.n = n => s.ok

\* C11: on a MANY_MANY association, once addOne(owner, child) has reported
\* success the persisted owner holds an entry for the child and the persisted
\* child holds an entry for the owner; once removeOne(owner, child) has
\* reported success neither side holds an entry for the other.
C11_SuccessMeansBothSides ==
    (assocType = "MANY_MANY" /\ LastAlone)
    => LET last == log[Len(log)]
       IN  /\ (last.op = "addOne" /\ last.outcome = "true")
              => (ownerHolds(last.owner, last.child) /\ childHolds(last.owner, last.child))
           /\ (last.op = "removeOne" /\ Succeeded(last) /\ last.child \in ChildIds)
              => (~ownerHolds(last.owner, last.child) /\ ~childHolds(last.owner, last.child))

\* C12: from a store with no links, after addOne, addMany and removeOne
\* calls run one after another that each reported success, on a MANY_MANY
\* association the persisted owner holds an entry for a child exactly when
\* the persisted child holds an entry for the owner, for every pair.
C12_LinksOnBothSidesOrNone ==
    ( /\ assocType = "MANY_MANY"
      /\ call.pc = "idle"
      /\ \A n \in DOMAIN log :
             log[n].op \in {"addOne", "addMany", "removeOne"} /\ Succeeded(log[n]) )
    => \A o \in OwnerIds, c \in ChildIds : ownerHolds(o, c) <=> childHolds(o, c)

Distinct(list) == \A i, j \in DOMAIN list : i # j => list[i] # list[j]

\* the last call was an addMany on a MANY_MANY association with distinct,
\* existing children, none of them linked to the owner on either side when it
\* started; it reported success and all its saves have completed
AddManyOfNewChildrenDone ==
    /\ assocType = "MANY_MANY"
    /\ LastAlone
    /\ Landed(Len(log))
    /\ LET last == log[Len(log)]
       IN  /\ last.op = "addMany"
           /\ last.outcome = "true"
           /\ Len(last.list) > 0
           /\ Distinct(last.list)
           /\ \A i \in DOMAIN last.list :
                  /\ last.list[i] \in ChildIds
                  /\ entryIndex(last.before.owners[last.owner], last.list[i]) = 0
                  /\ entryIndex(last.before.children[last.list[i]].links, last.owner) = 0

\* C13: addMany(owner, [c1..cn]) on a MANY_MANY association, with distinct,
\* existing, not yet linked children, leaves the owner's array as it was
\* followed by exactly one entry per ci in input order, and each ci with
\* exactly one entry for the owner.
C13_AddManyAppendsInOrder ==
    AddManyOfNewChildrenDone
    => LET last == log[Len(log)]
           was == last.before.owners[last.owner]
           now == owners[last.owner]
       IN  /\ Len(now) = Len(was) + Len(last.list)
           /\ SubSeq(now, 1, Len(was)) = was
           /\ \A i \in DOMAIN last.list :
                  /\ now[Len(was) + i].ref = last.list[i]
                  /\ Len(linksTo(children[last.list[i]].links, last.owner)) = 1

C13_Witness ==
    /\ AddManyOfNewChildrenDone
    /\ Len(log[Len(log)].list) = MaxMany
    /\ Len(owners[log[Len(log)].owner]) = MaxMany

\* the children a call links: the child of addOne, the children of addMany
targets(r) == IF r.op = "addMany" THEN {r.list[i] : i \in DOMAIN r.list} ELSE {r.child}

\* the extra fields a call's payload carries for its children
newExtra(r) == IF r.plain THEN "none" ELSE r.extra

linkedOnce(documents, o, c) ==
    /\ c \in ChildIds
    /\ Len(linksTo(documents.owners[o], c)) = 1
    /\ Len(linksTo(documents.children[c].links, o)) = 1

\* C14: on a MANY_MANY association, when owner and child are linked and
\* addOne or addMany is called for the pair with other extra fields or with
\* none, the entry on each side keeps its _id and carries the new extra
\* fields, and neither side gets a second entry for the pair.
C14_RelinkReplacesExtraFields ==
    ( /\ assocType = "MANY_MANY"
      /\ LastAlone
      /\ Landed(Len(log))
      /\ log[Len(log)].op \in {"addOne", "addMany"}
      /\ log[Len(log)].outcome = "true" )
    => LET last == log[Len(log)]
           o == last.owner
       IN  \A c \in targets(last) :
               linkedOnce(last.before, o, c)
               => LET wasOwner == linksTo(last.before.owners[o], c)[1]
                      wasChild == linksTo(last.before.children[c].links, o)[1]
                      onOwner == linksTo(owners[o], c)
                      onChild == linksTo(children[c].links, o)
                  IN  /\ Len(onOwner) = 1
                      /\ Len(onChild) = 1
                      /\ onOwner[1] = [wasOwner EXCEPT !.extra = newExtra(last)]
                      /\ onChild[1] = [wasChild EXCEPT !.extra = newExtra(last)]

\* the last call was removeOne(owner, child) on a MANY_MANY association, for
\* an existing owner and child of which neither held an entry for the other,
\* and the owner was loaded
RemoveOneOfUnlinkedPair ==
    /\ assocType = "MANY_MANY"
    /\ LastAlone
    /\ LET last == log[Len(log)]
       IN  /\ last.op = "removeOne"
           /\ last.error # "repository error"
           /\ last.owner \in OwnerIds
           /\ last.child \in ChildIds
           /\ entryIndex(last.before.owners[last.owner], last.child) = 0
           /\ entryIndex(last.before.children[last.child].links, last.owner) = 0

\* C15: removeOne(owner, child) on a MANY_MANY pair that is not linked
\* reports no error, and the owner's array and the child's reciprocal array
\* hold the same entries in the same order as before the call.
C15_RemoveOneOfUnlinkedIsNoOp ==
    RemoveOneOfUnlinkedPair
    => LET last == log[Len(log)]
       IN  /\ Succeeded(last)
           /\ owners[last.owner] = last.before.owners[last.owner]
           /\ children[last.child].links = last.before.children[last.child].links

\* both saves of such a removeOne have completed, on an owner that holds an
\* entry for another child
C15_Witness ==
    /\ RemoveOneOfUnlinkedPair
    /\ Landed(Len(log))
    /\ Len(owners[log[Len(log)].owner]) > 0
    /\ \A kind \in {"owner", "child"} :
           \E s \in settled : s.n = Len(log) /\ s.kind = kind /\ s.ok

savedBy(n, kind) == \E s \in settled : s.n = n /\ s.kind = kind /\ s.ok

failedIn(n) == \E s \in settled : s.n = n /\ ~s.ok

\* C16: on a MANY_MANY association, addOne and removeOne (of an existing
\* owner and child) have reported success only if the owner's save and the
\* child's save of the call have both completed, and never when one of the
\* two saves has failed.
C16_SuccessAfterBothSaves ==
    assocType = "MANY_MANY"
    => \A n \in DOMAIN log :
           ( /\ log[n].op \in {"addOne", "removeOne"}
             /\ log[n].owner \in OwnerIds
             /\ log[n].child \in ChildIds
             /\ Succeeded(log[n]) )
           => /\ savedBy(n, "owner")
              /\ savedBy(n, "child")
              /\ ~failedIn(n)

\* the error kinds an operation raises to its caller
ErrorKinds == {"BAD_REQUEST", "NOT_FOUND", "SERVER_TIMEOUT", "GATEWAY_TIMEOUT", "FORBIDDEN",
               "INTERNAL"}

\* the saves that step k of call n issued
savesOfStep(n, k) ==
    {s \in settled : s.n = n /\ s.k = k} \cup {p \in pending : p.n = n /\ p.k = k}

\* C17: when the linking step of addMany fails for the k-th child, no linking
\* step runs for the children after it, the links of the children before it
\* stay on both sides once their saves have completed, and addMany reports a
\* failure to its caller.
C17_AddManyStopsAndReports ==
    \A n \in DOMAIN log :
        LET r == log[n]
        IN  (r.op = "addMany" /\ r.owner \in OwnerIds /\ r.outcome # "true")
            => /\ \A j \in (r.k + 1)..Len(r.list) : savesOfStep(n, j) = {}
               /\ ( /\ assocType = "MANY_MANY"
                    /\ n = Len(log) /\ call.pc = "idle" /\ r.clean
                    /\ \A i \in 1..(r.k - 1) :
                           /\ \A p \in pending : ~(p.n = n /\ p.k = i)
                           /\ \A s \in settled : (s.n = n /\ s.k = i) => s.ok )
                  => \A i \in 1..(r.k - 1) :
                         ownerHolds(r.owner, r.list[i]) /\ childHolds(r.owner, r.list[i])
               /\ r.outcome \in ErrorKinds

\* the saves and the detached removals that call n issued
writesOf(n) ==
    {s \in settled : s.n = n} \cup {p \in pending : p.n = n} \cup {t \in detached : t.n = n}

\* C18: addOne, removeOne, addMany and getAll called with an owner id that
\* matches no document each report a NOT_FOUND error, and none of them saves
\* the owner or a child or starts a removal.
C18_MissingOwnerIsNotFound ==
    \A n \in DOMAIN log :
        (log[n].op \in {"addOne", "removeOne", "addMany", "getAll"} /\ log[n].owner = MissingId)
        => (log[n].outcome = "NOT_FOUND" /\ writesOf(n) = {})

\* C19: addOne with an existing owner and a child id that matches no
\* document reports a NOT_FOUND error, and the owner is not saved.
C19_MissingChildIsNotFound ==
    \A n \in DOMAIN log :
        (log[n].op = "addOne" /\ log[n].owner \in OwnerIds /\ log[n].child = MissingId)
        => (log[n].outcome = "NOT_FOUND" /\ writesOf(n) = {})

\* the arguments of call n: from the log once it has reported, from the call
\* in progress before
callOf(n) == IF n \in DOMAIN log THEN log[n] ELSE call

\* the saves call n has issued
savesOf(n) == {s \in settled : s.n = n} \cup {p \in pending : p.n = n}

\* C20: on a ONE_MANY association, addOne leaves the child's foreign key
\* equal to the owner id and removeOne leaves it cleared, and the only
\* document either of them saves is that child: the owner and the other
\* children are as before the call.
C20_OneManyTouchesChildOnly ==
    assocType = "ONE_MANY"
    => /\ \A n \in 1..(Len(log) + 1) :
              callOf(n).op \in {"addOne", "removeOne"}
              => \A s \in savesOf(n) : s.kind = "child" /\ s.id = callOf(n).child
       /\ \A p \in pending :
              callOf(p.n).op \in {"addOne", "removeOne"}
              => p.fk = (IF callOf(p.n).op = "addOne" THEN callOf(p.n).owner ELSE 0)
       /\ LastAlone
          => LET last == log[Len(log)]
             IN  /\ (last.op = "addOne" /\ last.outcome = "true")
                    => children[last.child].fk = last.owner
                 /\ (last.op = "removeOne" /\ savedBy(Len(log), "child"))
                    => children[last.child].fk = 0
                 /\ last.op \in {"addOne", "removeOne"}
                    => /\ owners = last.before.owners
                       /\ \A c \in ChildIds \ {last.child} :
                              children[c] = last.before.children[c]

\* removeOne has cleared a foreign key that an addOne had set
C20_Witness ==
    /\ assocType = "ONE_MANY"
    /\ LastAlone
    /\ Len(log) = 2
    /\ log[1].op = "addOne" /\ log[1].outcome = "true"
    /\ log[2].op = "removeOne" /\ log[2].child = log[1].child
    /\ log[2].before.children[log[2].child].fk = log[1].owner
    /\ savedBy(2, "child")
    /\ children[log[2].child].fk = 0
\* ------------------------------------------------------------------------
\* Claims about the filter of getAll, the failures of repository calls and
\* the order of the steps of addMany
\* ------------------------------------------------------------------------
\* the owner's association id set when call r started
associationSetOf(r) ==
    IF assocType = "MANY_MANY"
    THEN {r.before.owners[r.owner][i].ref : i \in DOMAIN r.before.owners[r.owner]}
    ELSE {c \in ChildIds : r.before.children[c].fk = r.owner}

\* C21: getAll returns only child documents whose id is in the owner's
\* association id set, whatever filter the caller supplies, a $where on _id
\* included
C21_GetAllReturnsOnlyAssociated ==
    \A n \in DOMAIN log :
        (log[n].op = "getAll" /\ log[n].outcome = "list")
            => \A i \in DOMAIN log[n].result : log[n].result[i] \in associationSetOf(log[n])
\* ------------------------------------------------------------------------
\* Claims about failures inside the scope check and the derivation of the
\* pre-check's action
\* ------------------------------------------------------------------------
\* what verifyScope does for the request in the pre-check and in the post-check
preEvaluation ==
    verifyScope(findByIds(store, preIds(request, request.payload), 1), preAction(request),
                request.user, enableDocumentScopeFail)

postEvaluation ==
    verifyScope(readResult(store, request), "read", request.user, enableDocumentScopeFail)

\* C22: in the pre-check and in the post-check, an exception thrown while the
\* scope is evaluated ends the request with an internal error passed to next:
\* not a forbidden error, not a success, not an exception that leaves the hook
C22_EvaluationFailureIsInternal ==
    /\ (preOutcome # "none" /\ preAction(request) # "" /\ preEvaluation.kind # "ok")
           => preOutcome = "badImplementation"
    /\ (postOutcome # "none" /\ request.method = "get" /\ postEvaluation.kind # "ok")
           => postOutcome = "badImplementation"
\* a repository call made by call n failed: the load of the owner or a save
repositoryFailedIn(n) ==
    log[n].error \in {"repository error", "save error"} \/ failedIn(n)

\* C23: a failure of a repository call made by an association operation, the
\* initial load of the owner included, reaches the caller as one typed error
\* of the taxonomy: not as the repository's raw error and not as a success
C23_RepositoryFailureIsTyped ==
    \A n \in DOMAIN log : repositoryFailedIn(n) => log[n].outcome \in ErrorKinds
\* ------------------------------------------------------------------------
\* Claims about list, find, create, update and delete
\* ------------------------------------------------------------------------
HookSteps == {"pre", "post"}

\* the repository calls of a call, as they happened
persistence(h) == SelectSeq(h.events, LAMBDA e : e.step \notin HookSteps)

invoked(h, name) == \E i \in DOMAIN h.events : h.events[i].step = name

\* the call looked its target up: its first repository call succeeded
lookedUp(h) == Len(persistence(h)) > 0 /\ persistence(h)[1].ok

\* C24: find, update and delete on an id that matches no document report
\* NOT_FOUND, not SERVER_TIMEOUT or BAD_REQUEST, and the collection's
\* post-hook is not invoked
C24_MissingTargetIsNotFound ==
    \A n \in DOMAIN history :
        LET h == history[n]
        IN  (h.op \in {"find", "update", "delete"} /\ ~found(h.before, h.id) /\ lookedUp(h))
                => (h.outcome = "NOT_FOUND" /\ ~invoked(h, "post"))

\* C25: delete removes the document only when soft delete is disabled by
\* configuration or the payload carries hardDelete; otherwise the document
\* stays and is marked isDeleted with the date of the call as deletedAt
C25_SoftDeleteUnlessHard ==
    \A n \in DOMAIN history :
        LET h == history[n]
        IN  (h.op = "delete" /\ found(h.before, h.id))
                => IF ~lookedUp(h) THEN h.after = h.before
                   ELSE IF ~config.enableSoftDelete \/ (h.body.defined /\ h.body.hardDelete)
                   THEN ~found(h.after, h.id)
                   ELSE h.after[h.id] = [h.before[h.id] EXCEPT !.isDeleted = TRUE,
                                                                !.deletedAt = h.at]

\* a delete of an existing document was carried out with soft delete enabled
\* and a payload without hardDelete, and the document is marked
C25_Witness ==
    \E n \in DOMAIN history :
        /\ history[n].op = "delete"
        /\ found(history[n].before, history[n].id)
        /\ lookedUp(history[n])
        /\ config.enableSoftDelete
        /\ history[n].body.defined
        /\ ~history[n].body.hardDelete
        /\ collection[history[n].id].isDeleted

\* the documents a call added to the collection
added(h) == {i \in CrudIds : ~found(h.before, i) /\ found(h.after, i)}

\* C26: when the collection defines the hooks, a call runs the pre-hook
\* first, then its repository calls, then the post-hook; a failing pre-hook
\* prevents the repository call, and the post-hook runs only after the
\* repository calls succeeded
C26_PreThenPersistenceThenPost ==
    \A n \in DOMAIN history :
        LET h == history[n]
            e == h.events
        IN  (routeOptions.pre /\ routeOptions.post)
                => /\ e[1].step = "pre"
                   /\ \A i \in DOMAIN e : i > 1 => e[i].step # "pre"
                   /\ \A i \in DOMAIN e : e[i].step = "post" => i = Len(e)
                   /\ ~e[1].ok => Len(e) = 1
                   /\ invoked(h, "post")
                          => (Len(persistence(h)) > 0
                              /\ \A i \in DOMAIN persistence(h) : persistence(h)[i].ok)

\* C27: create sets createdAt and updatedAt exactly when
\* config.enableCreatedAt is on, update sets updatedAt exactly when
\* config.enableUpdatedAt is on, and no timestamp is set otherwise
C27_TimestampsFollowSwitches ==
    \A n \in DOMAIN history :
        LET h == history[n]
        IN  /\ (h.op = "create" /\ lookedUp(h))
                   => /\ Cardinality(added(h)) = 1
                      /\ \A i \in added(h) :
                             IF config.enableCreatedAt
                             THEN h.after[i].createdAt = h.at /\ h.after[i].updatedAt = h.at
                             ELSE h.after[i].createdAt = 0 /\ h.after[i].updatedAt = 0
            /\ (h.op = "update" /\ lookedUp(h) /\ found(h.before, h.id))
                   => /\ h.after[h.id].createdAt = h.before[h.id].createdAt
                      /\ h.after[h.id].updatedAt =
                             IF config.enableUpdatedAt THEN h.at
                             ELSE h.before[h.id].updatedAt

\* a create was carried out with config.enableCreatedAt off, and the new
\* document is in the collection
C27_Witness ==
    \E n \in DOMAIN history :
        /\ history[n].op = "create"
        /\ lookedUp(history[n])
        /\ ~config.enableCreatedAt
        /\ \E i \in added(history[n]) : found(collection, i)
scopeReads == SelectSeq(repoCalls, LAMBDA c : c = "find scope")

\* C28: the pre-check verifies update on the _id of a PUT with an _id; read
\* (GET) or associate (any other method) on the ownerId of a request with an
\* ownerId; delete on the _id of a DELETE or, without one, on the _id of every
\* item of its payload; every other request passes without a scope read
C28_PreCheckActionAndIds ==
    preOutcome # "none" =>
        IF request.method = "put" /\ request.id # 0
        THEN scopeRead = [action |-> "update", ids |-> {request.id}] /\ Len(scopeReads) = 1
        ELSE IF request.ownerId # 0
        THEN /\ scopeRead = [action |-> IF request.method = "get" THEN "read" ELSE "associate",
                             ids |-> {request.ownerId}]
             /\ Len(scopeReads) = 1
        ELSE IF request.method = "delete"
        THEN /\ scopeRead.action = "delete"
             /\ scopeRead.ids = IF request.id # 0 THEN {request.id}
                                ELSE {request.payload[i] : i \in DOMAIN request.payload}
             /\ Len(scopeReads) = 1
        ELSE scopeRead = NoScopeRead /\ preOutcome = "continue" /\ Len(scopeReads) = 0

\* the pre-check handled a GET on an owner: the read of an association
C28_Witness ==
    /\ preOutcome # "none"
    /\ request.method = "get"
    /\ request.ownerId # 0
    /\ scopeRead.action = "read"
\* the child lookup of step j of call n has started: the step issued saves,
\* or the call ended at that step or a later one
lookupStarted(n, j) ==
    \/ \E p \in pending : p.n = n /\ p.k = j
    \/ \E s \in settled : s.n = n /\ s.k = j
    \/ (n \in DOMAIN log /\ log[n].k >= j)

\* C29: within one addMany call the linking steps never overlap: the child
\* lookup of step i+1 starts only after the saves of step i have completed,
\* and the steps take the children in input order
C29_AddManyStepsDoNotOverlap ==
    \A n \in 1..MaxCalls :
        callOf(n).op = "addMany" =>
            /\ \A j \in 2..MaxMany :
                   lookupStarted(n, j) => ~\E p \in pending : p.n = n /\ p.k < j
            /\ \A p \in pending :
                   (p.n = n /\ p.kind = "child") => p.id = callOf(n).list[p.k]
\* C30: on a MANY_MANY association whose child collection declares no
\* MANY_MANY association back to the owner's collection, addOne of an existing
\* owner and child fails with the error "association does not exist" and
\* saves neither the owner nor the child
C30_MissingReciprocalIsConfigurationError ==
    \A n \in DOMAIN log :
        ( /\ assocType = "MANY_MANY"
          /\ ~reciprocal
          /\ log[n].op = "addOne"
          /\ log[n].owner \in OwnerIds
          /\ log[n].child \in ChildIds
          /\ log[n].error # "repository error" )
        => /\ log[n].error = "association does not exist"
           /\ ~Succeeded(log[n])
           /\ savesOf(n) = {}
\* ------------------------------------------------------------------------
\* SpecAssocLive: the association calls when every repository call settles:
\* the child's findOne of a linking step resolves and every save issued
\* completes or fails
\* ------------------------------------------------------------------------
SpecAssocLive ==
    /\ InitAssoc
    /\ [][NextAssoc]_vars
    /\ WF_vars(SetAssociation)
    /\ WF_vars(RemoveAssociation)
    /\ WF_vars(SaveCompletes)

\* the promise that call n returned has been resolved or rejected
settledCall(n) == n \in DOMAIN log /\ log[n].outcome # "unsettled"

\* C31: every addMany call eventually settles, resolved or rejected, when
\* every repository call it makes settles, a failing linking step included
C31_AddManyEventuallySettles ==
    \A n \in 1..MaxCalls : (call.n = n /\ call.op = "addMany") ~> settledCall(n)
\* the documents a delete is aimed at once the pre-check has run: the
\* document of the _id parameter, or those of the items left in the payload
deleteTargets ==
    IF request.id # 0 THEN {request.id} ELSE {payload[i] : i \in DOMAIN payload}

\* C32: in lenient mode the pre-check never lets a delete proceed with a
\* target that fails the delete scope check: no unauthorized id remains in
\* the payload of a bulk delete, and a delete by _id of an unauthorized
\* document does not proceed.
C32_LenientDeleteNeverPassesUnauthorized ==
    ( /\ ~enableDocumentScopeFail
      /\ preAction(request) = "delete"
      /\ preOutcome = "continue" )
    => \A i \in deleteTargets :
           ~FailsScope(storedDocument(store, i), "delete", request.user)

C32_Witness ==
    /\ ~enableDocumentScopeFail
    /\ preAction(request) = "delete"
    /\ request.id # 0
    /\ FailsScope(storedDocument(store, request.id), "delete", request.user)
    /\ preOutcome \notin {"none", "continue"}
    /\ repoCalls = <<"find scope">>
\* every call so far was an addOne or addMany that reported success, ran
\* alone, and had all its saves completed
OnlySuccessfulAdds ==
    /\ Len(log) > 0
    /\ Quiescent
    /\ \A n \in DOMAIN log :
           /\ log[n].op \in {"addOne", "addMany"}
           /\ log[n].outcome = "true"
           /\ log[n].clean
           /\ Landed(n)

\* C34: after any sequence of successful addOne and addMany calls, with
\* plain ids or with extra-field records, the extra fields on the owner's
\* entry for a child equal those on the child's reciprocal entry for the
\* owner, for every linked MANY_MANY pair.
C34_ExtraFieldsAgreeOnBothSides ==
    (assocType = "MANY_MANY" /\ OnlySuccessfulAdds)
    => \A o \in OwnerIds, c \in ChildIds :
           LET onOwner == linksTo(owners[o], c)
               onChild == linksTo(children[c].links, o)
           IN  \A i \in DOMAIN onOwner, j \in DOMAIN onChild :
                   onOwner[i].extra = onChild[j].extra
\* addOne resolved a reciprocal array on the child and removeOne has run
\* after it
RemovedAfterAdd ==
    /\ resolution.add \notin {"none", "TypeError"}
    /\ resolution.remove # "none"

\* C33: for every list of association descriptors on the child model addOne
\* and removeOne resolve the same reciprocal array on the child, so that a
\* removeOne after an addOne removes the entry the addOne created there.
C33_SameReciprocalArray ==
    RemovedAfterAdd
    => /\ resolution.remove = resolution.add
       /\ entryIndex(childObject[resolution.add].links, ResolveOwner) = 0
\* every request has reported success and every save it issued has completed
AllReportSuccess ==
    /\ requests # <<>>
    /\ \A p \in DOMAIN requests :
           /\ requests[p].outcome = "true"
           /\ requests[p].childSave = "saved"

\* C35: when addOne requests for the same owner and different children run
\* at the same time, their loads and saves interleaved in any order, and all
\* report success, the persisted owner has an entry for each of the
\* children: no update of the owner's association array is lost.
C35_NoLostOwnerUpdate ==
    AllReportSuccess
    => \A p \in DOMAIN requests : entryIndex(ownerDocument, requests[p].child) # 0

====
